---- MODULE Spec2Model ----
(***************************************************************************)
(* Model of the multi-file variable combination engine of wrf-python       *)
(* (src/src/wrf/util.py): the moving-domain detector, the time-index       *)
(* locator, the cat and join combiners and the extraction facade.          *)
(*                                                                         *)
(* Python values are modelled as follows.                                  *)
(*   - an optional value is a sequence: <<>> is None, <<v>> is the value v *)
(*   - an n-d array is a record [shape, val, masked, mask]; val and mask   *)
(*     are functions over the 0-based index tuples of the shape            *)
(*   - a source (one netCDF file) is a record with its Time dimension, the *)
(*     extracted variable and the corner points of its XLAT/XLONG grids    *)
(***************************************************************************)
EXTENDS Integers, Sequences, FiniteSets, TLC

\* ------------------------------------------------------------------ bounds
MaxFiles == 3
MaxTimes == 2
MaxDim == 2
MaxKeys == 2
\* the passes made over one collection
MaxPasses == 3

\* --------------------------------------------------------------- constants
DEFAULT_FILL == 9969
UNINIT == 7777

None == <<>>
Some(v) == <<v>>
ALL_TIMES == None

\* the extents of the three sources of the locator's worked example
ExampleExtents == <<3, 2, 4>>

Methods == {"cat", "join", "bad"}
Keys == {None, Some("k1")}

\* The variables of a source: T and P lie on the mass grid, U on the
\* staggered grid, and ZNU has no "coordinates" attribute; the attribute of
\* T and U names the time coordinate too, that of P (an older file) does not.
VarNames == {"T", "P", "U", "ZNU"}

\* getattr(variables[varname], "coordinates").split(), None when the
\* attribute is missing
Coordinates(varname) ==
    IF varname = "T" THEN Some(<<"XLONG", "XLAT", "XTIME">>)
    ELSE IF varname = "P" THEN Some(<<"XLONG", "XLAT">>)
    ELSE IF varname = "U" THEN Some(<<"XLONG_U", "XLAT_U", "XTIME">>)
    ELSE None

\* ------------------------------------------------------------ numpy arrays
Range0(n) == 0..(n - 1)

RECURSIVE Indices(_)
Indices(shape) ==
    IF shape = <<>> THEN {<<>>}
    ELSE {<<a>> \o r : a \in Range0(Head(shape)), r \in Indices(Tail(shape))}

np_full(shape, v) ==
    [shape |-> shape,
     val |-> [ix \in Indices(shape) |-> v],
     masked |-> FALSE,
     mask |-> [ix \in Indices(shape) |-> FALSE]]

\* the elements of a new buffer are whatever the memory held
np_empty(shape) == np_full(shape, UNINIT)

NoArray == np_empty(<<0>>)

\* Python index normalisation: a negative index counts from the end.
PyIdx(i, n) == IF i < 0 THEN i + n ELSE i

InBounds(i, n) == (0 - n) <= i /\ i < n

\* a[i, :]  (i must be in bounds)
TakeFirst(a, i) ==
    LET p == PyIdx(i, a.shape[1]) IN
    [shape |-> Tail(a.shape),
     val |-> [ix \in Indices(Tail(a.shape)) |-> a.val[<<p>> \o ix]],
     masked |-> a.masked,
     mask |-> [ix \in Indices(Tail(a.shape)) |-> a.mask[<<p>> \o ix]]]

\* a[:, i, :]  (i must be in bounds of the second axis)
TakeSecond(a, i) ==
    LET p == PyIdx(i, a.shape[2])
        sh == <<a.shape[1]>> \o SubSeq(a.shape, 3, Len(a.shape))
    IN
    [shape |-> sh,
     val |-> [ix \in Indices(sh) |-> a.val[<<ix[1], p>> \o Tail(ix)]],
     masked |-> a.masked,
     mask |-> [ix \in Indices(sh) |-> a.mask[<<ix[1], p>> \o Tail(ix)]]]

\* a[np.newaxis, :]
NewAxis(a) ==
    LET sh == <<1>> \o a.shape IN
    [shape |-> sh,
     val |-> [ix \in Indices(sh) |-> a.val[Tail(ix)]],
     masked |-> a.masked,
     mask |-> [ix \in Indices(sh) |-> a.mask[Tail(ix)]]]

\* a[:, np.newaxis, :]
NewAxisSecond(a) ==
    LET sh == <<a.shape[1], 1>> \o Tail(a.shape) IN
    [shape |-> sh,
     val |-> [ix \in Indices(sh) |-> a.val[<<ix[1]>> \o Tail(Tail(ix))]],
     masked |-> a.masked,
     mask |-> [ix \in Indices(sh) |-> a.mask[<<ix[1]>> \o Tail(Tail(ix))]]]

\* a squeeze that only drops the leading length-1 axes
RECURSIVE LeadingShape(_)
LeadingShape(shape) ==
    IF shape = <<>> THEN <<>>
    ELSE IF Head(shape) = 1 THEN LeadingShape(Tail(shape))
    ELSE shape

squeeze_leading(a) ==
    LET sh == LeadingShape(a.shape)
        pad == [i \in 1..(Len(a.shape) - Len(sh)) |-> 0] IN
    [shape |-> sh,
     val |-> [ix \in Indices(sh) |-> a.val[pad \o ix]],
     masked |-> a.masked,
     mask |-> [ix \in Indices(sh) |-> a.mask[pad \o ix]]]

\* a.squeeze(): the length-1 axes are removed
RECURSIVE SqueezeShape(_)
SqueezeShape(shape) ==
    IF shape = <<>> THEN <<>>
    ELSE IF Head(shape) = 1 THEN SqueezeShape(Tail(shape))
    ELSE <<Head(shape)>> \o SqueezeShape(Tail(shape))

RECURSIVE Unsqueeze(_, _)
Unsqueeze(shape, ix) ==
    IF shape = <<>> THEN <<>>
    ELSE IF Head(shape) = 1 THEN <<0>> \o Unsqueeze(Tail(shape), ix)
    ELSE <<Head(ix)>> \o Unsqueeze(Tail(shape), Tail(ix))

squeeze(a) ==
    LET sh == SqueezeShape(a.shape) IN
    [shape |-> sh,
     val |-> [ix \in Indices(sh) |-> a.val[Unsqueeze(a.shape, ix)]],
     masked |-> a.masked,
     mask |-> [ix \in Indices(sh) |-> a.mask[Unsqueeze(a.shape, ix)]]]

\* numpy assignment  out[prefix, start:stop, :] = value.
\* The slice is clipped to the axis, leading length-1 axes of a value with
\* too many axes are dropped, and the value is broadcast to the region:
\* every axis of the value must have the region's size or size 1.
Clip(stop, n) == IF stop > n THEN n ELSE stop

RECURSIVE StripOnes(_, _)
StripOnes(vs, n) ==
    IF Len(vs) > n /\ Head(vs) = 1 THEN StripOnes(Tail(vs), n) ELSE vs

RegionShape(out, prefix, start, stop) ==
    LET n == out.shape[Len(prefix) + 1]
        rows == IF Clip(stop, n) > start THEN Clip(stop, n) - start ELSE 0
    IN <<rows>> \o SubSeq(out.shape, Len(prefix) + 2, Len(out.shape))

Broadcastable(vshape, tshape) ==
    LET v == StripOnes(vshape, Len(tshape))
        off == Len(tshape) - Len(v)
    IN /\ Len(v) <= Len(tshape)
       /\ \A p \in 1..Len(v) : v[p] = tshape[p + off] \/ v[p] = 1

\* index into the value for the region-relative index rel
SrcIndex(vshape, tshape, rel) ==
    LET v == StripOnes(vshape, Len(tshape))
        off == Len(tshape) - Len(v)
        lead == Len(vshape) - Len(v)
    IN [p \in 1..Len(vshape) |->
          IF p <= lead THEN 0
          ELSE IF v[p - lead] = 1 THEN 0
          ELSE rel[p - lead + off]]

CanAssign(out, prefix, start, stop, value) ==
    Broadcastable(value.shape, RegionShape(out, prefix, start, stop))

Assign(out, prefix, start, stop, value) ==
    LET lp == Len(prefix)
        n == out.shape[lp + 1]
        tshape == RegionShape(out, prefix, start, stop)
        InRegion(ix) == /\ SubSeq(ix, 1, lp) = prefix
                        /\ start <= ix[lp + 1]
                        /\ ix[lp + 1] < Clip(stop, n)
        Rel(ix) == <<ix[lp + 1] - start>> \o SubSeq(ix, lp + 2, Len(ix))
    IN [out EXCEPT !.val =
          [ix \in DOMAIN out.val |->
             IF InRegion(ix)
             THEN value.val[SrcIndex(value.shape, tshape, Rel(ix))]
             ELSE out.val[ix]]]

\* np.ma.masked_values(a, v): every element equal to v is masked
masked_values(a, v) ==
    [a EXCEPT !.masked = TRUE,
              !.mask = [ix \in DOMAIN a.val |-> a.val[ix] = v]]

\* ----------------------------------------------------------------- sources
\* The variable of source number id: every element identifies its source and
\* its position, except that element [0, 0] is the fill value when fill holds.
Cell(id, ix) == id * 100 + ix[1] * 10 + ix[2]

\* Corner points of the lat/lon grids at one time: <<lower left, upper right>>.
\* In a slice with c = 1 the upper right longitude has moved.
MkLat(c) == <<0, 1>>
MkLon(c) == <<0, 1 + c>>

\* A source: dimensions["Time"], variables[varname] for the variable asked
\* for, and the corner points per time of the mass grid (XLAT, XLONG) and of
\* the staggered grid (XLAT_U, XLONG_U), and the minutes of its times (XTIME).
MkFile(id, nt, dim, fill, cs) ==
    [Time |-> nt,
     XTIME |-> [t \in Range0(nt) |-> 60 * (10 * id + t)],
     var |-> [shape |-> <<nt, dim>>,
              val |-> [ix \in Indices(<<nt, dim>>) |->
                         IF fill /\ ix = <<0, 0>> THEN DEFAULT_FILL
                         ELSE Cell(id, ix)],
              masked |-> FALSE,
              mask |-> [ix \in Indices(<<nt, dim>>) |-> FALSE]],
     XLAT |-> [t \in Range0(nt) |-> MkLat(cs[t])],
     XLONG |-> [t \in Range0(nt) |-> MkLon(cs[t])],
     XLAT_U |-> [t \in Range0(nt) |-> MkLat(cs[t])],
     XLONG_U |-> [t \in Range0(nt) |-> MkLon(cs[t])]]

\* wrfnc.variables[name] for a coordinate variable
CoordVar(f, name) ==
    IF name = "XLAT" THEN f.XLAT
    ELSE IF name = "XLONG" THEN f.XLONG
    ELSE IF name = "XLAT_U" THEN f.XLAT_U
    ELSE IF name = "XLONG_U" THEN f.XLONG_U
    ELSE f.XTIME

\* Sources with static grids, any extents and non-time shapes; source fillAt
\* (if any) holds the fill value as data.
DataFiles(k, nts, dims, fillAt) ==
    [i \in 1..k |-> MkFile(i, nts[i], dims[i], i = fillAt,
                           [t \in Range0(nts[i]) |-> 0])]

\* Sources of non-time shape [1]; the grid has moved in the last time of
\* source movedAt (if any).
MovedFiles(k, nts, movedAt) ==
    [i \in 1..k |-> MkFile(i, nts[i], 1, FALSE,
                           [t \in Range0(nts[i]) |->
                              IF i = movedAt /\ t = nts[i] - 1 THEN 1 ELSE 0])]

\* The corner points of k sources that differ in them.
CornerChoices(k, nts) ==
    {cs \in [1..k -> [Range0(MaxTimes) -> {0, 1}]] :
        \A i \in 1..k : \A t \in Range0(MaxTimes) : t >= nts[i] => cs[i][t] = 0}

is_multi_time_req(timeidx) == timeidx = None

is_multi_file(seq) == seq.kind # "single"

extract_dim(wrfnc) == wrfnc.Time

\* len(extract_times(wrfseq, ALL_TIMES)): one entry per time of every source
RECURSIVE SumTimes(_)
SumTimes(files) ==
    IF files = <<>> THEN 0 ELSE extract_dim(Head(files)) + SumTimes(Tail(files))

Reversed(s) == [i \in 1..Len(s) |-> s[Len(s) + 1 - i]]

\* ------------------------------------------------------------------- state
VARIABLES
    pc,          \* the running function ("idle" between calls)
    wrfseq,      \* the source collection of the running call
    req,         \* the call's arguments
    wrf_iter,    \* number of sources already taken from the iterator
    wrfnc,       \* position in wrfseq of the source in hand (0: none)
    comboidx,    \* _find_forward/_find_reverse: times of the sources skipped
    filetimeidx, \* _find_forward/_find_reverse: local time index
    corners,     \* is_moving_domain: <<ll_corner, ur_corner>> of the reference
    is_moving,   \* the is_moving argument/local: None or <<boolean>>
    startidx,    \* _cat_files: running time offset
    file_idx,    \* _join_files: running source index
    less_than_max, \* _join_files: file_times_less_than_max
    outdata,     \* the output buffer
    result,      \* what the call returned or raised
    cache,       \* the coordinate cache: <<key, product>> -> value
    dict_idx,    \* _combine_dict: idx, the number of keys already written
    moving_calls, \* is_moving_domain calls made so far by the running call
    ext,         \* the calls with metadata in progress, one per caller
    view         \* get_iterable: the wrapped collection and its iterators

vars == <<pc, wrfseq, req, wrf_iter, wrfnc, comboidx, filetimeidx, corners,
          is_moving, startidx, file_idx, less_than_max, outdata, result,
          cache, dict_idx, moving_calls, ext, view>>

\* the state of the calls without metadata, the cache left out
prog == <<pc, wrfseq, req, wrf_iter, wrfnc, comboidx, filetimeidx, corners,
          is_moving, startidx, file_idx, less_than_max, outdata, result,
          dict_idx, moving_calls>>

\* the locals of _combine_dict and the call counter
more == <<dict_idx, moving_calls>>

NoResult == [status |-> "none", err |-> "", arr |-> NoArray, flag |-> FALSE]
Returned(a) == [status |-> "ok", err |-> "", arr |-> a, flag |-> FALSE]
Raised(e) == [status |-> "error", err |-> e, arr |-> NoArray, flag |-> FALSE]

NoSeq == [kind |-> "single", files |-> <<>>]
NoReq == [fn |-> "", timeidx |-> None, method |-> "", squeeze |-> FALSE,
          key |-> None, varname |-> None]

\* the callers of extractions with metadata
Procs == {1, 2}

NoCoords == [lon |-> None, lat |-> None, time |-> None, proj |-> None]
NoPair == [lon |-> None, lat |-> None]
NoMeta == [status |-> "none", err |-> "", coords |-> NoCoords]

\* the locals of one call: its arguments, the position e in a mapping, the
\* source bf, the time index bt and the multifile flag bm of the running
\* _build_data_array, the dimension names and values of its coordinates,
\* the aggregation buffers and flags of _cat_files/_join_files, the log of
\* the coordinate reads and of the cache operations, the arrays of the
\* entries of a mapping, the outcome, and the cache entries c0 under its
\* tokens that the call started from
MetaIdle ==
    [pc |-> "idle", kind |-> "single", files |-> <<>>, method |-> "",
     timeidx |-> None, key |-> None, varname |-> None, moving |-> None,
     e |-> 0, bf |-> 0, bt |-> None, bm |-> FALSE,
     dims |-> NoPair, vals |-> NoPair, time_vals |-> None,
     first_var |-> NoCoords, res |-> NoCoords,
     cached |-> [time |-> FALSE, lat |-> FALSE, lon |-> FALSE, proj |-> FALSE],
     outs |-> [time |-> None, lat |-> None, lon |-> None, proj |-> None],
     i |-> 0, reads |-> <<>>, ops |-> <<>>, arrays |-> <<>>, out |-> NoMeta,
     c0 |-> <<>>, ncalls |-> 0, prev |-> None]

\* no collection is being iterated
NoView ==
    [pc |-> "idle", type |-> "list", n |-> 0, module |-> None,
     state |-> "own", wrapper |-> FALSE, pos |-> 0, iters |-> <<>>,
     err |-> ""]

Init ==
    /\ view = NoView
    /\ pc = "idle"
    /\ wrfseq = NoSeq
    /\ req = NoReq
    /\ wrf_iter = 0
    /\ wrfnc = 0
    /\ comboidx = 0
    /\ filetimeidx = 0
    /\ corners = <<>>
    /\ is_moving = None
    /\ startidx = 0
    /\ file_idx = 0
    /\ less_than_max = FALSE
    /\ outdata = NoArray
    /\ result = NoResult
    /\ cache = <<>>
    /\ dict_idx = 0
    /\ moving_calls = 0
    /\ ext = [p \in Procs |-> MetaIdle]

\* --------------------------------------------------------- coordinate cache
get_cached_item(c, key, product) ==
    IF key = None THEN None
    ELSE IF <<key[1], product>> \in DOMAIN c THEN Some(c[<<key[1], product>>])
    ELSE None

cache_item(c, key, product, value) ==
    IF key = None THEN c
    ELSE [kp \in (DOMAIN c) \cup {<<key[1], product>>} |->
            IF kp = <<key[1], product>> THEN value ELSE c[kp]]

\* ------------------------------------------------ return paths of the facade
\* combine_files / _extract_var: "return outarr.squeeze() if squeeze else outarr"
Finish(r, arr) == Returned(IF r.squeeze THEN squeeze(arr) ELSE arr)

ResetLocals ==
    /\ wrf_iter' = 0
    /\ wrfnc' = 0
    /\ comboidx' = 0
    /\ filetimeidx' = 0
    /\ corners' = <<>>
    /\ is_moving' = None
    /\ startidx' = 0
    /\ file_idx' = 0
    /\ less_than_max' = FALSE
    /\ outdata' = NoArray
    /\ dict_idx' = 0
    /\ moving_calls' = 0

\* --------------------------------------------------------------- the facade
\* ReadSingle without the time axis put back
ReadSingle_noaxis(f, timeidx) ==
    IF ~is_multi_time_req(timeidx)
    THEN TakeFirst(f.var, timeidx[1])
    ELSE f.var

\* _extract_var for one source (no metadata): the time index is read directly
ReadSingle(f, timeidx) ==
    IF ~is_multi_time_req(timeidx)
    THEN NewAxis(TakeFirst(f.var, timeidx[1]))
    ELSE f.var

\* combine_files: the combiner chosen for an ordered collection
Dispatch(method) ==
    IF method = "cat" THEN "_cat_files"
    ELSE IF method = "join" THEN "_join_files"
    ELSE "raise"

\* per-source time extents: all within the bound, and the worked example
ExtentChoices(k) ==
    [1..k -> 1..MaxTimes] \cup (IF k = Len(ExampleExtents)
                                THEN {ExampleExtents} ELSE {})

\* the time indexes a family of calls is tried with
TimeChoices(mode, files) ==
    IF mode = "locate"
    THEN {Some(g) : g \in (0 - (SumTimes(files) + 1))..SumTimes(files)}
    ELSE IF mode = "ends"
    THEN {ALL_TIMES, Some(0), Some(0 - 1)}
    ELSE IF mode = "first"
    THEN {Some(0)}
    ELSE IF mode = "join"
    THEN {ALL_TIMES} \cup
         {Some(g) : g \in UNION {(0 - (extract_dim(files[i]) + 1))
                                    ..extract_dim(files[i]) :
                                 i \in 1..Len(files)}}
    ELSE {ALL_TIMES} \cup
         {Some(g) : g \in (0 - (SumTimes(files) + 1))..SumTimes(files)}

\* A family of calls of extract_vars gives the kinds of collection, the
\* methods, whether the non-time shapes of the sources may differ, whether
\* the fill value may occur as data, the time indexes, the variable names,
\* the cache tokens, the squeeze flags and whether the grid may have moved.

\* The collections a call is tried on.  The fill value occurs as data only in
\* collections of one non-time shape; a call with a cache token is tried on
\* collections of non-time shape [1] without fill values.  A call without a
\* token neither reads nor writes the cache, so it is tried from the empty
\* cache only.
DataChoice(fam, k, dims, fillAt, key) ==
    /\ ~fam.mixed => \A i \in 1..k : dims[i] = dims[1]
    /\ ~fam.fill => fillAt = 0
    /\ fillAt # 0 => \A i \in 1..k : dims[i] = dims[1]
    /\ key # None => fillAt = 0 /\ \A i \in 1..k : dims[i] = 1
    /\ key = None => cache = <<>>

\* the non-time extents of the k sources of a call of the family fam
DimChoices(fam, k) ==
    IF fam.mixed THEN [1..k -> 1..MaxDim]
    ELSE {[i \in 1..k |-> d] : d \in 1..MaxDim}

\* a not-a-number element of cached values
NAN == 8888

\* An already extracted variable is a DataArray (da) or a plain array; a
\* DataArray may carry the attribute _FillValue (fill).
CachedVars ==
    {[da |-> d, fill |-> f,
      values |-> [np_full(<<1, 2>>, 900) EXCEPT !.val[<<0, 1>>] = v]] :
        d \in BOOLEAN, f \in BOOLEAN, v \in {901, NAN}}

\* the caches of extracted variables a call is tried with: none, or a
\* dictionary holding one variable
VarCaches ==
    {None} \cup {Some(<<"T", cv>>) : cv \in {c \in CachedVars : c.fill => c.da}}
           \cup {Some(<<"P", cv>>) : cv \in {c \in CachedVars :
                                               ~c.da /\ ~c.fill
                                               /\ c.values.val[<<0, 1>>] = 901}}

\* cache_lookup finding nothing
cache_lookup_miss(vc, varname) == None

\* cache[varname] of _extract_var: None for "cache is None" and for KeyError
cache_lookup(vc, varname) ==
    IF vc # None /\ vc[1][1] = varname THEN Some(vc[1][2]) ELSE None

\* npvalues(array_type): the object itself unless it is a DataArray, whose
\* values are returned, masked where invalid if it has a _FillValue
npvalues(cv) ==
    IF ~cv.da THEN cv.values
    ELSE IF ~cv.fill THEN cv.values
    ELSE [cv.values EXCEPT !.masked = TRUE,
                           !.mask = [ix \in DOMAIN cv.values.val |->
                                       cv.values.val[ix] = NAN]]

\* extract_vars -> _extract_var -> combine_files, for one variable, on a
\* call of the family fam: a variable found in the cache of extracted
\* variables is returned at once (as it is with meta on, its values with
\* meta off); otherwise the extraction is that of meta off
ExtractVars(fam) ==
    /\ pc = "idle"
    /\ UNCHANGED <<ext, view>>
    /\ \E kind \in fam.kinds, method \in fam.methods, sq \in fam.squeezes,
          key \in fam.keys, varname \in fam.vars, vc \in fam.caches :
       \E meta \in (IF cache_lookup(vc, varname) # None THEN fam.metas
                    ELSE {FALSE}) :
       \E k \in (IF kind = "single" THEN {1} ELSE 1..MaxFiles) :
       \E nts \in ExtentChoices(k), dims \in DimChoices(fam, k),
          fillAt \in (IF fam.fill THEN 0..k ELSE {0}),
          movedAt \in (IF fam.moving THEN 0..k ELSE {0}) :
       \E timeidx \in TimeChoices(fam.times, DataFiles(k, nts, dims, fillAt)) :
          /\ kind = "single" => k = 1
          /\ DataChoice(fam, k, dims, fillAt, key)
          /\ ~fam.moving => movedAt = 0
          /\ wrfseq' = [kind |-> kind,
                        files |-> IF fam.moving
                                  THEN MovedFiles(k, nts, movedAt)
                                  ELSE DataFiles(k, nts, dims, fillAt)]
          /\ req' = [fn |-> "extract_vars", timeidx |-> timeidx,
                     method |-> method, squeeze |-> sq, key |-> key,
                     varname |-> Some(varname), cache |-> vc, meta |-> meta]
    /\ IF cache_lookup(req'.cache, req'.varname[1]) # None
       THEN /\ pc' = "done"
            /\ result' =
                 Returned(IF req'.meta
                          THEN cache_lookup(req'.cache, req'.varname[1])[1]
                          ELSE npvalues(cache_lookup(req'.cache,
                                                     req'.varname[1])[1]))
       ELSE IF ~is_multi_file(wrfseq')
       THEN /\ pc' = "done"
            /\ result' =
                 IF /\ ~is_multi_time_req(req'.timeidx)
                    /\ ~InBounds(req'.timeidx[1], wrfseq'.files[1].Time)
                 THEN Raised("IndexError")
                 ELSE Finish(req', ReadSingle(wrfseq'.files[1], req'.timeidx))
       ELSE IF Dispatch(req'.method) = "raise"
       THEN /\ pc' = "done"
            /\ result' = Raised("ValueError")
       ELSE /\ pc' = Dispatch(req'.method)
            /\ result' = NoResult
    /\ ResetLocals
    /\ UNCHANGED cache

\* any call on one source or an ordered collection
extract_vars ==
    ExtractVars([kinds |-> {"single", "seq"}, methods |-> Methods, mixed |-> TRUE,
                 fill |-> TRUE, times |-> "any", vars |-> {"T"}, keys |-> Keys,
                 squeezes |-> BOOLEAN, moving |-> FALSE,
                 caches |-> {None}, metas |-> {FALSE}])

\* a cat call for one time
extract_vars_locate ==
    ExtractVars([kinds |-> {"seq"}, methods |-> {"cat"}, mixed |-> FALSE,
                 fill |-> FALSE, times |-> "locate", vars |-> {"T"}, keys |-> Keys,
                 squeezes |-> BOOLEAN, moving |-> FALSE,
                 caches |-> {None}, metas |-> {FALSE}])

\* any cat call, on sources whose non-time shapes may differ
extract_vars_cat ==
    ExtractVars([kinds |-> {"seq"}, methods |-> {"cat"}, mixed |-> TRUE,
                 fill |-> FALSE, times |-> "ends", vars |-> {"T"}, keys |-> Keys,
                 squeezes |-> BOOLEAN, moving |-> FALSE,
                 caches |-> {None}, metas |-> {FALSE}])

\* a join call, on sources that may hold the fill value as data
extract_vars_join ==
    ExtractVars([kinds |-> {"seq"}, methods |-> {"join"}, mixed |-> FALSE,
                 fill |-> TRUE, times |-> "join", vars |-> {"T"}, keys |-> Keys,
                 squeezes |-> BOOLEAN, moving |-> FALSE,
                 caches |-> {None}, metas |-> {FALSE}])

\* a call on one source
extract_vars_single ==
    ExtractVars([kinds |-> {"single"}, methods |-> Methods, mixed |-> FALSE,
                 fill |-> TRUE, times |-> "any", vars |-> {"T"}, keys |-> Keys,
                 squeezes |-> BOOLEAN, moving |-> FALSE,
                 caches |-> {None}, metas |-> {FALSE}])

\* calls with a cache token, for every variable, on sources whose grid may
\* have moved
extract_vars_token ==
    ExtractVars([kinds |-> {"seq"}, methods |-> {"cat", "join"}, mixed |-> FALSE,
                 fill |-> FALSE, times |-> "first", vars |-> VarNames,
                 keys |-> {Some("k1")}, squeezes |-> {FALSE}, moving |-> TRUE,
                 caches |-> {None}, metas |-> {FALSE}])

\* calls with and without squeeze, for one time and for all times, on sources
\* of one non-time shape
extract_vars_squeeze ==
    ExtractVars([kinds |-> {"single", "seq"}, methods |-> {"cat", "join"},
                 mixed |-> FALSE, fill |-> FALSE, times |-> "ends", vars |-> {"T"},
                 keys |-> {None}, squeezes |-> BOOLEAN, moving |-> FALSE,
                 caches |-> {None}, metas |-> {FALSE}])

\* calls with a cache of extracted variables, with and without metadata
extract_vars_cached ==
    ExtractVars([kinds |-> {"single", "seq"}, methods |-> {"cat", "join"},
                 mixed |-> FALSE, fill |-> FALSE, times |-> "ends", vars |-> {"T"},
                 keys |-> Keys, squeezes |-> BOOLEAN, moving |-> FALSE,
                 caches |-> VarCaches, metas |-> BOOLEAN])

\* ---------------------------------------------------- moving-domain detector
\* the fallback names: either("XLAT", "XLAT_M") and either("XLONG", "XLONG_M")
\* on a source that has XLAT and XLONG
\* the coordinate pair is_moving_domain resolves for varname
lon_coord(varname) ==
    IF varname # None /\ Coordinates(varname[1]) # None
    THEN Coordinates(varname[1])[1][1]
    ELSE "XLONG"

lat_coord(varname) ==
    IF varname # None /\ Coordinates(varname[1]) # None
    THEN Coordinates(varname[1])[1][2]
    ELSE "XLAT"

\* Product keyed by the variable's name
Product_byname(varname) ==
    "is_moving_" \o (IF varname = None THEN "None" ELSE varname[1])

\* "is_moving_{}_{}".format(lat_coord, lon_coord)
Product(varname) ==
    "is_moving_" \o lat_coord(varname) \o "_" \o lon_coord(varname)

\* A mapping is a collection of kind "dict" whose files are its entries in
\* the iteration order of its keys; its cache token is <<"map", subtokens>>
\* with one subtoken per key.
MapKey(subs) == <<"map", subs>>

\* the subtokens of a mapping with m keys
TokenNames == <<"ka", "kb", "kc", "kd">>

\* _key[key] for the key at position i
SubKey(key, i) == key[2][i]

\* the last key's entry and its subtoken instead of the first's
RECURSIVE MovingTarget_last(_, _)
MovingTarget_last(seq, key) ==
    IF seq.kind = "dict"
    THEN MovingTarget_last(seq.files[Len(seq.files)],
                           IF key # None THEN SubKey(key, Len(seq.files))
                           ELSE None)
    ELSE [seq |-> seq, key |-> key]

\* is_moving_domain on a mapping: the first key's entry and its subtoken,
\* down to the first entry that is not a mapping
RECURSIVE MovingTarget(_, _)
MovingTarget(seq, key) ==
    IF seq.kind = "dict"
    THEN MovingTarget(seq.files[1], IF key # None THEN SubKey(key, 1) ELSE None)
    ELSE [seq |-> seq, key |-> key]

\* the collection and the token the running detection is about
Target == MovingTarget(wrfseq, req.key)

\* a direct call of is_moving_domain(wrfseq, _key=key)
is_moving_domain_call ==
    /\ pc = "idle"
    /\ UNCHANGED <<ext, view>>
    /\ \E k \in 1..MaxFiles, kind \in {"single", "seq"}, key \in Keys :
       \E nts \in [1..k -> 1..MaxTimes] :
       \E cs \in CornerChoices(k, nts) :
          /\ kind = "single" => k = 1
          /\ wrfseq' = [kind |-> kind, files |-> [i \in 1..k |->
                                     MkFile(i, nts[i], 1, FALSE, cs[i])]]
          /\ req' = [fn |-> "is_moving_domain", timeidx |-> None,
                     method |-> "", squeeze |-> FALSE, key |-> key,
                     varname |-> None]
    /\ pc' = "is_moving_domain"
    /\ result' = NoResult
    /\ ResetLocals
    /\ UNCHANGED cache

\* The sources of entry e of a detection request: k sources of nt times.
\* Time 0 of the first source of the first entry is on the grid 0; its later
\* times are on the grid 1 if firstMoves; every other source is on the grid
\* 1 if shifted and on the grid 0 if not; the time flip (if any) is on the
\* other grid.
DetectFiles(e, k, nt, firstMoves, shifted, flip) ==
    [i \in 1..k |->
       MkFile(10 * (e - 1) + i, nt, 1, FALSE,
              [t \in Range0(MaxTimes) |->
                 LET c == IF e = 1 /\ i = 1
                          THEN (IF firstMoves /\ t > 0 THEN 1 ELSE 0)
                          ELSE (IF shifted THEN 1 ELSE 0)
                 IN IF flip = <<e, i, t>> THEN 1 - c ELSE c])]

\* a direct call of is_moving_domain(wrfseq, _key=key) on one source, an
\* ordered collection, or a mapping of m keys whose entries are alike in
\* kind and size and, if nested, each wrapped in a mapping of one key; the
\* token of a mapping has the subtoken k1 under the first key
is_moving_domain_request ==
    /\ pc = "idle"
    /\ UNCHANGED <<ext, view>>
    /\ \E m \in 0..MaxKeys, kind \in {"single", "seq"}, keyed \in BOOLEAN,
          nt \in 1..MaxTimes, firstMoves \in BOOLEAN, shifted \in BOOLEAN :
       \E k \in (IF kind = "single" THEN {1} ELSE 1..MaxFiles),
          nested \in (IF m = 0 THEN {FALSE} ELSE BOOLEAN) :
       \E flip \in {<<0, 0, 0>>} \cup
                    ((IF m = 0 THEN {1} ELSE 1..m) \X (1..k) \X Range0(nt)) :
          /\ wrfseq' =
                IF m = 0
                THEN [kind |-> kind,
                      files |-> DetectFiles(1, k, nt, firstMoves, shifted, flip)]
                ELSE [kind |-> "dict",
                      files |-> [e \in 1..m |->
                         LET entry == [kind |-> kind,
                                       files |-> DetectFiles(e, k, nt,
                                                    firstMoves, shifted, flip)]
                         IN IF nested
                            THEN [kind |-> "dict", files |-> <<entry>>]
                            ELSE entry]]
          /\ req' = [fn |-> "is_moving_domain", timeidx |-> None,
                     method |-> "", squeeze |-> FALSE,
                     key |-> IF ~keyed THEN None
                             ELSE IF m = 0 THEN Some("k1")
                             ELSE MapKey([e \in 1..m |->
                                LET sub == Some(IF e = 1 THEN "k1"
                                                ELSE TokenNames[e])
                                IN IF nested THEN MapKey(<<sub>>) ELSE sub]),
                     varname |-> None]
    /\ pc' = "is_moving_domain"
    /\ result' = NoResult
    /\ ResetLocals
    /\ UNCHANGED cache

\* reference corners taken from the last time of the first source
FirstCorners_last(f, latc, lonc) ==
    LET lats == CoordVar(f, latc)
        lons == CoordVar(f, lonc)
    IN <<(<<lats[f.Time - 1][1], lons[f.Time - 1][1]>>),
         (<<lats[f.Time - 1][2], lons[f.Time - 1][2]>>)>>

\* lats[0, 0, 0], lons[0, 0, 0] and lats[0, -1, -1], lons[0, -1, -1]
FirstCorners(f, latc, lonc) ==
    LET lats == CoordVar(f, latc)
        lons == CoordVar(f, lonc)
    IN <<(<<lats[0][1], lons[0][1]>>), (<<lats[0][2], lons[0][2]>>)>>

\* a comparison that looks at time 0 of the source only
_corners_moved_attime0(f, first_ll_corner, first_ur_corner, latc, lonc) ==
    LET lats == CoordVar(f, latc)
        lons == CoordVar(f, lonc)
    IN \/ first_ll_corner[1] # lats[0][1]
       \/ first_ll_corner[2] # lons[0][1]
       \/ first_ur_corner[1] # lats[0][2]
       \/ first_ur_corner[2] # lons[0][2]

_corners_moved(f, first_ll_corner, first_ur_corner, latc, lonc) ==
    LET lats == CoordVar(f, latc)
        lons == CoordVar(f, lonc)
    IN \E i \in Range0(f.Time) :
        \/ first_ll_corner[1] # lats[i][1]
        \/ first_ll_corner[2] # lons[i][1]
        \/ first_ur_corner[1] # lats[i][2]
        \/ first_ur_corner[2] # lons[i][2]

\* "return moving" of is_moving_domain: to the caller of a direct call, or
\* back into the combiner that asked
MovingReturn(b) ==
    IF req.fn = "is_moving_domain"
    THEN /\ pc' = "done"
         /\ result' = [NoResult EXCEPT !.status = "ok", !.flag = b]
         /\ is_moving' = Some(b)
    ELSE /\ pc' = IF wrfseq.kind = "dict" THEN "_combine_dict"
                  ELSE Dispatch(req.method)
         /\ result' = result
         /\ is_moving' = Some(b)

\* is_moving_domain up to the loop: the cache lookup and the reference corners
is_moving_domain ==
    /\ pc = "is_moving_domain"
    /\ UNCHANGED <<ext, view>>
    /\ LET moving == get_cached_item(cache, Target.key, Product(req.varname)) IN
       IF moving # None
       THEN /\ MovingReturn(moving[1])
            /\ UNCHANGED <<wrf_iter, wrfnc, corners>>
       ELSE /\ wrf_iter' = 1
            /\ wrfnc' = 1
            /\ corners' = FirstCorners(Target.seq.files[1], lat_coord(req.varname),
                                        lon_coord(req.varname))
            /\ pc' = "is_moving_loop"
            /\ UNCHANGED <<is_moving, result>>
    /\ UNCHANGED <<wrfseq, req, comboidx, filetimeidx, startidx, file_idx,
                   less_than_max, outdata, cache>>
    /\ moving_calls' = moving_calls + 1
    /\ UNCHANGED dict_idx

\* one iteration of the loop over the remaining sources
is_moving_loop ==
    /\ pc = "is_moving_loop"
    /\ UNCHANGED <<ext, view>>
    /\ IF wrf_iter >= Len(Target.seq.files)
       THEN /\ cache' = cache_item(cache, Target.key, Product(req.varname), FALSE)
            /\ MovingReturn(FALSE)
            /\ UNCHANGED <<wrf_iter, wrfnc>>
       ELSE /\ wrf_iter' = wrf_iter + 1
            /\ wrfnc' = wrf_iter + 1
            /\ IF _corners_moved(Target.seq.files[wrf_iter + 1],
                                 corners[1], corners[2],
                                 lat_coord(req.varname), lon_coord(req.varname))
               THEN /\ cache' = cache_item(cache, Target.key,
                                           Product(req.varname), TRUE)
                    /\ MovingReturn(TRUE)
               ELSE UNCHANGED <<cache, pc, result, is_moving>>
    /\ UNCHANGED <<wrfseq, req, comboidx, filetimeidx, corners, startidx,
                   file_idx, less_than_max, outdata>>
    /\ UNCHANGED more

\* ------------------------------------------------------- time-index locator
\* the test that the source in hand holds the time looked for
Located(idx, combo, numtimes) == idx < combo + numtimes

\* the read of one time of a source,
\* wrfnc.variables[varname][filetimeidx, :] with the time axis put back: an
\* index outside the source raises
ReadResult(r, f, t) ==
    IF InBounds(t, f.var.shape[1])
    THEN Finish(r, NewAxis(TakeFirst(f.var, t)))
    ELSE Raised("IndexError")

\* ForwardIdx with the operands of the subtraction exchanged
ForwardIdx_swapped(timeidx, combo) == combo - timeidx

\* the local index _find_forward reads once timeidx < comboidx + numtimes
ForwardIdx(timeidx, combo) == timeidx - combo

\* ReverseIdx without counting back from the end of the source
ReverseIdx_fromstart(numtimes, revtimeidx, combo) == revtimeidx - combo

\* the local index _find_reverse reads once revtimeidx < comboidx + numtimes
ReverseIdx(numtimes, revtimeidx, combo) == numtimes - (revtimeidx - combo) - 1

\* one iteration of the loop of _find_forward
_find_forward ==
    /\ pc = "_find_forward"
    /\ UNCHANGED <<ext, view>>
    /\ IF wrf_iter >= Len(wrfseq.files)
       THEN /\ result' = Raised("IndexError")
            /\ pc' = "done"
            /\ UNCHANGED <<wrf_iter, wrfnc, comboidx, filetimeidx>>
       ELSE LET f == wrfseq.files[wrf_iter + 1]
                numtimes == extract_dim(f)
            IN
            /\ wrf_iter' = wrf_iter + 1
            /\ wrfnc' = wrf_iter + 1
            /\ IF Located(req.timeidx[1], comboidx, numtimes)
               THEN /\ filetimeidx' = ForwardIdx(req.timeidx[1], comboidx)
                    /\ result' = ReadResult(req, f, filetimeidx')
                    /\ pc' = "done"
                    /\ UNCHANGED comboidx
               ELSE /\ comboidx' = comboidx + numtimes
                    /\ UNCHANGED <<filetimeidx, result, pc>>
    /\ UNCHANGED <<wrfseq, req, corners, is_moving, startidx, file_idx,
                   less_than_max, outdata, cache>>
    /\ UNCHANGED more

\* one iteration of the loop of _find_reverse, over reversed(wrfseq);
\* wrfnc is the position of the source in wrfseq
_find_reverse ==
    /\ pc = "_find_reverse"
    /\ UNCHANGED <<ext, view>>
    /\ IF wrf_iter >= Len(wrfseq.files)
       THEN /\ result' = Raised("IndexError")
            /\ pc' = "done"
            /\ UNCHANGED <<wrf_iter, wrfnc, comboidx, filetimeidx>>
       ELSE LET f == Reversed(wrfseq.files)[wrf_iter + 1]
                numtimes == extract_dim(f)
                revtimeidx == (0 - req.timeidx[1]) - 1
            IN
            /\ wrf_iter' = wrf_iter + 1
            /\ wrfnc' = Len(wrfseq.files) - wrf_iter
            /\ IF Located(revtimeidx, comboidx, numtimes)
               THEN /\ filetimeidx' = ReverseIdx(numtimes, revtimeidx, comboidx)
                    /\ result' = ReadResult(req, f, filetimeidx')
                    /\ pc' = "done"
                    /\ UNCHANGED comboidx
               ELSE /\ comboidx' = comboidx + numtimes
                    /\ UNCHANGED <<filetimeidx, result, pc>>
    /\ UNCHANGED <<wrfseq, req, corners, is_moving, startidx, file_idx,
                   less_than_max, outdata, cache>>
    /\ UNCHANGED more

\* FindDirection without the reverse case
FindDirection_forward(timeidx) == "_find_forward"

\* _find_arr_for_time: the direction of the walk
FindDirection(timeidx) ==
    IF timeidx >= 0 THEN "_find_forward" ELSE "_find_reverse"

\* ------------------------------------------------------------ cat combiner
\* the buffer of _cat_files with the first source copied in
CatFirst(files) ==
    LET first_var == files[1].var
        outdims == <<SumTimes(files)>> \o Tail(first_var.shape)
        numtimes == first_var.shape[1]
    IN [out |-> Assign(np_empty(outdims), <<>>, 0, numtimes, first_var),
        start |-> numtimes,
        ok |-> TRUE]

\* CatBody writing every source at the start of the buffer
CatBody_nooffset(st, f) ==
    LET vardata == f.var
        numtimes == vardata.shape[1]
        endidx == st.start + numtimes
    IN IF CanAssign(st.out, <<>>, 0, numtimes, vardata)
       THEN [out |-> Assign(st.out, <<>>, 0, numtimes, vardata),
             start |-> endidx,
             ok |-> TRUE]
       ELSE [st EXCEPT !.ok = FALSE]

\* the body of the loop of _cat_files for source f
CatBody(st, f) ==
    LET vardata == f.var
        numtimes == vardata.shape[1]
        endidx == st.start + numtimes
    IN IF CanAssign(st.out, <<>>, st.start, endidx, vardata)
       THEN [out |-> Assign(st.out, <<>>, st.start, endidx, vardata),
             start |-> endidx,
             ok |-> TRUE]
       ELSE [st EXCEPT !.ok = FALSE]

\* _cat_files up to the loop: moving-domain detection if the flag was not
\* passed in, then either the single-time lookup or the output buffer with
\* the first source copied in
_cat_files ==
    /\ pc = "_cat_files"
    /\ UNCHANGED <<ext, view>>
    /\ IF is_moving = None
       THEN /\ pc' = "is_moving_domain"
            /\ UNCHANGED <<wrf_iter, wrfnc, startidx, outdata>>
       ELSE IF ~is_multi_time_req(req.timeidx)
       THEN /\ pc' = FindDirection(req.timeidx[1])
            /\ wrf_iter' = 0
            /\ wrfnc' = 0
            /\ UNCHANGED <<startidx, outdata>>
       ELSE LET st == CatFirst(wrfseq.files) IN
            /\ wrf_iter' = 1
            /\ wrfnc' = 1
            /\ outdata' = st.out
            /\ startidx' = st.start
            /\ pc' = "_cat_loop"
    /\ UNCHANGED <<wrfseq, req, comboidx, filetimeidx, corners, is_moving,
                   file_idx, less_than_max, result, cache>>
    /\ UNCHANGED more

\* one iteration of the loop of _cat_files over the remaining sources
_cat_loop ==
    /\ pc = "_cat_loop"
    /\ UNCHANGED <<ext, view>>
    /\ IF wrf_iter >= Len(wrfseq.files)
       THEN /\ result' = Finish(req, outdata)
            /\ pc' = "done"
            /\ UNCHANGED <<wrf_iter, wrfnc, startidx, outdata>>
       ELSE LET st == CatBody([out |-> outdata, start |-> startidx, ok |-> TRUE],
                               wrfseq.files[wrf_iter + 1])
            IN
            /\ wrf_iter' = wrf_iter + 1
            /\ wrfnc' = wrf_iter + 1
            /\ IF st.ok
               THEN /\ outdata' = st.out
                    /\ startidx' = st.start
                    /\ UNCHANGED <<result, pc>>
               ELSE /\ result' = Raised("ValueError")
                    /\ pc' = "done"
                    /\ UNCHANGED <<outdata, startidx>>
    /\ UNCHANGED <<wrfseq, req, comboidx, filetimeidx, corners, is_moving,
                   file_idx, less_than_max, cache>>
    /\ UNCHANGED more

\* ----------------------------------------------------------- join combiner
RECURSIVE _find_max_time_size(_)
_find_max_time_size(files) ==
    IF files = <<>> THEN 0
    ELSE LET t == extract_dim(Head(files))
             m == _find_max_time_size(Tail(files))
         IN IF t >= m THEN t ELSE m

_get_numfiles(files) == Len(files)

\* the buffer of _join_files with the first source written
JoinFirst(files) ==
    LET numfiles == _get_numfiles(files)
        maxtimes == _find_max_time_size(files)
        numtimes == extract_dim(files[1])
        first_var == files[1].var
        outdims == <<numfiles, maxtimes>> \o Tail(first_var.shape)
    IN [out |-> Assign(np_full(outdims, DEFAULT_FILL), <<0>>, 0, numtimes,
                       first_var),
        less |-> numtimes < maxtimes,
        ok |-> TRUE]

\* JoinBody writing every source into row 0 of the buffer
JoinBody_firstrow(st, f, idx, maxtimes, multitime) ==
    LET numtimes == extract_dim(f)
        outvar == IF multitime THEN f.var ELSE NewAxis(f.var)
    IN IF CanAssign(st.out, <<0>>, 0, numtimes, outvar)
       THEN [out |-> Assign(st.out, <<0>>, 0, numtimes, outvar),
             less |-> st.less \/ numtimes < maxtimes,
             ok |-> TRUE]
       ELSE [st EXCEPT !.ok = FALSE]

\* the body of the loop of _join_files for source f at index idx
JoinBody(st, f, idx, maxtimes, multitime) ==
    LET numtimes == extract_dim(f)
        outvar == IF multitime THEN f.var ELSE NewAxis(f.var)
    IN IF CanAssign(st.out, <<idx>>, 0, numtimes, outvar)
       THEN [out |-> Assign(st.out, <<idx>>, 0, numtimes, outvar),
             less |-> st.less \/ numtimes < maxtimes,
             ok |-> TRUE]
       ELSE [st EXCEPT !.ok = FALSE]

\* _join_files after the loop: masking, then the single time sliced out
JoinMask(out, less) ==
    IF less THEN masked_values(out, DEFAULT_FILL) ELSE out

\* JoinSlice taking the first time whatever the index
JoinSlice_first(out, timeidx) == NewAxisSecond(TakeSecond(out, 0))

JoinSlice(out, timeidx) == NewAxisSecond(TakeSecond(out, timeidx))

JoinFinish(r, out, less) ==
    IF is_multi_time_req(r.timeidx)
    THEN Finish(r, JoinMask(out, less))
    ELSE IF ~InBounds(r.timeidx[1], out.shape[2])
    THEN Raised("IndexError")
    ELSE Finish(r, JoinSlice(JoinMask(out, less), r.timeidx[1]))

\* the loop of _join_files over the sources from position i on
RECURSIVE JoinLoop(_, _, _, _)
JoinLoop(st, files, i, multitime) ==
    IF i > Len(files) \/ ~st.ok THEN st
    ELSE JoinLoop(JoinBody(st, files[i], i - 1, _find_max_time_size(files),
                           multitime),
                  files, i + 1, multitime)

\* _join_files as a whole, for the call arguments r
JoinFiles(r, files) ==
    LET st == JoinLoop(JoinFirst(files), files, 2,
                       is_multi_time_req(r.timeidx))
    IN IF st.ok THEN JoinFinish(r, st.out, st.less)
       ELSE Raised("ValueError")

\* _join_files up to the loop
_join_files ==
    /\ pc = "_join_files"
    /\ UNCHANGED <<ext, view>>
    /\ IF is_moving = None
       THEN /\ pc' = "is_moving_domain"
            /\ UNCHANGED <<wrf_iter, wrfnc, file_idx, less_than_max, outdata>>
       ELSE LET st == JoinFirst(wrfseq.files) IN
            /\ wrf_iter' = 1
            /\ wrfnc' = 1
            /\ outdata' = st.out
            /\ less_than_max' = st.less
            /\ file_idx' = 1
            /\ pc' = "_join_loop"
    /\ UNCHANGED <<wrfseq, req, comboidx, filetimeidx, corners, is_moving,
                   startidx, result, cache>>
    /\ UNCHANGED more

\* one iteration of the loop of _join_files over the remaining sources, and
\* the code after the loop once the iterator is exhausted
_join_loop ==
    /\ pc = "_join_loop"
    /\ UNCHANGED <<ext, view>>
    /\ IF wrf_iter >= Len(wrfseq.files)
       THEN /\ result' = JoinFinish(req, outdata, less_than_max)
            /\ pc' = "done"
            /\ UNCHANGED <<wrf_iter, wrfnc, file_idx, less_than_max, outdata>>
       ELSE LET st == JoinBody([out |-> outdata, less |-> less_than_max,
                                ok |-> TRUE],
                               wrfseq.files[wrf_iter + 1], file_idx,
                               _find_max_time_size(wrfseq.files),
                               is_multi_time_req(req.timeidx))
            IN
            /\ wrf_iter' = wrf_iter + 1
            /\ wrfnc' = wrf_iter + 1
            /\ IF st.ok
               THEN /\ outdata' = st.out
                    /\ less_than_max' = st.less
                    /\ file_idx' = file_idx + 1
                    /\ UNCHANGED <<result, pc>>
               ELSE /\ result' = Raised("ValueError")
                    /\ pc' = "done"
                    /\ UNCHANGED <<outdata, less_than_max, file_idx>>
    /\ UNCHANGED <<wrfseq, req, comboidx, filetimeidx, corners, is_moving,
                   startidx, cache>>
    /\ UNCHANGED more

\* ------------------------------------------ the combiners as whole functions
\* What a call made from inside _combine_dict returns: the calls below are
\* the loops above run to their end.
RECURSIVE FindForward(_, _, _, _)
FindForward(r, files, i, combo) ==
    IF i > Len(files) THEN Raised("IndexError")
    ELSE LET numtimes == extract_dim(files[i]) IN
         IF Located(r.timeidx[1], combo, numtimes)
         THEN ReadResult(r, files[i], ForwardIdx(r.timeidx[1], combo))
         ELSE FindForward(r, files, i + 1, combo + numtimes)

RECURSIVE FindReverse(_, _, _, _)
FindReverse(r, files, i, combo) ==
    IF i > Len(files) THEN Raised("IndexError")
    ELSE LET f == Reversed(files)[i]
             numtimes == extract_dim(f)
             revtimeidx == (0 - r.timeidx[1]) - 1
         IN IF Located(revtimeidx, combo, numtimes)
            THEN ReadResult(r, f, ReverseIdx(numtimes, revtimeidx, combo))
            ELSE FindReverse(r, files, i + 1, combo + numtimes)

RECURSIVE CatLoop(_, _, _)
CatLoop(st, files, i) ==
    IF i > Len(files) \/ ~st.ok THEN st
    ELSE CatLoop(CatBody(st, files[i]), files, i + 1)

\* _cat_files as a whole, the moving-domain flag given
CatFiles(r, files) ==
    IF ~is_multi_time_req(r.timeidx)
    THEN IF FindDirection(r.timeidx[1]) = "_find_forward"
         THEN FindForward(r, files, 1, 0)
         ELSE FindReverse(r, files, 1, 0)
    ELSE LET st == CatLoop(CatFirst(files), files, 2) IN
         IF st.ok THEN Finish(r, st.out) ELSE Raised("ValueError")

\* combine_files for an ordered collection, the moving-domain flag given
CombineFiles(r, files) ==
    IF Dispatch(r.method) = "_cat_files" THEN CatFiles(r, files)
    ELSE IF Dispatch(r.method) = "_join_files" THEN JoinFiles(r, files)
    ELSE Raised("ValueError")

\* _extract_var for one source
ExtractSingle(r, f) ==
    IF ~is_multi_time_req(r.timeidx) /\ ~InBounds(r.timeidx[1], f.Time)
    THEN Raised("IndexError")
    ELSE Finish(r, ReadSingle(f, r.timeidx))

\* the loop of is_moving_domain run to its end
MovingFlag(files, varname) ==
    LET c == FirstCorners(files[1], lat_coord(varname), lon_coord(varname)) IN
    \E i \in 2..Len(files) :
        _corners_moved(files[i], c[1], c[2], lat_coord(varname),
                       lon_coord(varname))

\* is_moving_domain as a whole on an ordered collection, from the cache c
IsMovingDomain(c, files, varname, key) ==
    LET moving == get_cached_item(c, key, Product(varname)) IN
    IF moving # None
    THEN [flag |-> moving[1], cache |-> c]
    ELSE [flag |-> MovingFlag(files, varname),
          cache |-> cache_item(c, key, Product(varname),
                               MovingFlag(files, varname))]

\* ----------------------------------------------------------- dict combiner
RECURSIVE ExtractVar(_, _, _, _, _)
RECURSIVE DictLoop(_, _, _, _, _, _)

\* DictPut writing every key's array at index 0
DictPut_first(st, e, i, numkeys) ==
    IF e.res.status = "error"
    THEN [st EXCEPT !.cache = e.cache, !.calls = @ + e.calls, !.res = e.res]
    ELSE IF i = 1
    THEN [st EXCEPT !.cache = e.cache, !.calls = @ + e.calls,
                    !.out = Assign(np_empty(<<numkeys>> \o e.res.arr.shape),
                                   <<0>>, 0, e.res.arr.shape[1], e.res.arr)]
    ELSE IF Tail(st.out.shape) # e.res.arr.shape
    THEN [st EXCEPT !.cache = e.cache, !.calls = @ + e.calls,
                    !.res = Raised("ValueError")]
    ELSE [st EXCEPT !.cache = e.cache, !.calls = @ + e.calls,
                    !.out = Assign(st.out, <<0>>, 0, st.out.shape[2],
                                   e.res.arr)]

\* DictPut without the comparison of the shapes
DictPut_nocheck(st, e, i, numkeys) ==
    IF e.res.status = "error"
    THEN [st EXCEPT !.cache = e.cache, !.calls = @ + e.calls, !.res = e.res]
    ELSE IF i = 1
    THEN [st EXCEPT !.cache = e.cache, !.calls = @ + e.calls,
                    !.out = Assign(np_empty(<<numkeys>> \o e.res.arr.shape),
                                   <<0>>, 0, e.res.arr.shape[1], e.res.arr)]
    ELSE IF ~CanAssign(st.out, <<i - 1>>, 0, st.out.shape[2], e.res.arr)
    THEN [st EXCEPT !.cache = e.cache, !.calls = @ + e.calls,
                    !.res = Raised("ValueError")]
    ELSE [st EXCEPT !.cache = e.cache, !.calls = @ + e.calls,
                    !.out = Assign(st.out, <<i - 1>>, 0, st.out.shape[2],
                                   e.res.arr)]

\* _combine_dict once the array e of the key at position i is extracted: the
\* first array sets the shape of the buffer of numkeys rows, a later one must
\* have that shape, and is written at its key's index
DictPut(st, e, i, numkeys) ==
    IF e.res.status = "error"
    THEN [st EXCEPT !.cache = e.cache, !.calls = @ + e.calls, !.res = e.res]
    ELSE IF i = 1
    THEN [st EXCEPT !.cache = e.cache, !.calls = @ + e.calls,
                    !.out = Assign(np_empty(<<numkeys>> \o e.res.arr.shape),
                                   <<0>>, 0, e.res.arr.shape[1], e.res.arr)]
    ELSE IF Tail(st.out.shape) # e.res.arr.shape
    THEN [st EXCEPT !.cache = e.cache, !.calls = @ + e.calls,
                    !.res = Raised("ValueError")]
    ELSE [st EXCEPT !.cache = e.cache, !.calls = @ + e.calls,
                    !.out = Assign(st.out, <<i - 1>>, 0, st.out.shape[2],
                                   e.res.arr)]

\* _combine_dict for the key at position i: the entry is extracted with
\* squeeze off, the flag of the mapping and the subtoken _key[key]
DictBody(st, r0, d, key, moving, i) ==
    IF key = None
    THEN [st EXCEPT !.res = Raised("TypeError")]
    ELSE DictPut(st, ExtractVar(st.cache, r0, d.files[i], moving,
                                SubKey(key, i)),
                 i, Len(d.files))

DictLoop(st, r0, d, key, moving, i) ==
    IF i > Len(d.files) \/ st.res.status = "error" THEN st
    ELSE DictLoop(DictBody(st, r0, d, key, moving, i), r0, d, key, moving,
                  i + 1)

\* the loop of _combine_dict from the detection det of the moving flag
DictRun(r, d, key, det) ==
    DictLoop([out |-> NoArray, res |-> NoResult, cache |-> det.cache,
              calls |-> 1],
             [r EXCEPT !.squeeze = FALSE], d, key, det.flag, 1)

\* the return of combine_files on a mapping: the squeeze of the stacked array
DictReturn(r, st) ==
    IF st.res.status = "error"
    THEN [res |-> st.res, cache |-> st.cache, calls |-> st.calls]
    ELSE [res |-> Finish(r, st.out), cache |-> st.cache, calls |-> st.calls]

\* the detection of _combine_dict: is_moving_domain on the mapping
DictDetect(c, r, t) == IsMovingDomain(c, t.seq.files, r.varname, t.key)

\* combine_files on a mapping: _combine_dict as a whole from the cache c,
\* then the squeeze
CombineDict(c, r, d, key) ==
    DictReturn(r, DictRun(r, d, key, DictDetect(c, r, MovingTarget(d, key))))

\* _extract_var(entry, varname, timeidx, is_moving=moving, ..., _key=key)
\* with meta off: the result, the cache afterwards and the number of
\* is_moving_domain calls made
ExtractVar(c, r, entry, moving, key) ==
    IF entry.kind = "single"
    THEN [res |-> ExtractSingle(r, entry.files[1]), cache |-> c, calls |-> 0]
    ELSE IF entry.kind = "dict"
    THEN CombineDict(c, r, entry, key)
    ELSE [res |-> CombineFiles(r, entry.files), cache |-> c, calls |-> 0]

\* the entry of key j: one source, or k sources, of one extent and shape
DictEntry(j, kind, k, nt, dim) ==
    [kind |-> kind,
     files |-> [i \in 1..k |-> MkFile(10 * j + i, nt, dim, FALSE,
                                      [t \in Range0(nt) |-> 0])]]

\* extract_vars -> _extract_var -> combine_files on a mapping of m keys whose
\* entries are all single sources or all collections of k sources; the
\* entries have one extent and shape, except the entry of key dev (if any),
\* whose extent and shape are the same or the next ones.
\* A call without a token ends at the first key whatever its other
\* arguments, so it is tried with one choice of them.
extract_vars_dict ==
    /\ pc = "idle"
    /\ UNCHANGED <<ext, view>>
    /\ \E m \in 1..MaxKeys, kind \in {"single", "seq"}, k \in 1..MaxFiles,
          method \in {"cat", "join"}, sq \in BOOLEAN, keyed \in BOOLEAN,
          timeidx \in {ALL_TIMES, Some(0)} :
       \E nt \in 1..MaxTimes, dim \in 1..MaxDim, dev \in 1..m :
       \E nt2 \in {nt, 1 + (nt % MaxTimes)}, dim2 \in {dim, 1 + (dim % MaxDim)} :
          /\ kind = "single" => k = 1
          /\ ~keyed => /\ cache = <<>>
                       /\ method = "cat" /\ ~sq /\ timeidx = ALL_TIMES
                       /\ dev = 1
          /\ dev = 1 => nt2 = nt /\ dim2 = dim
          /\ wrfseq' = [kind |-> "dict",
                        files |-> [j \in 1..m |->
                                     IF j = dev
                                     THEN DictEntry(j, kind, k, nt2, dim2)
                                     ELSE DictEntry(j, kind, k, nt, dim)]]
          /\ req' = [fn |-> "extract_vars", timeidx |-> timeidx,
                     method |-> method, squeeze |-> sq,
                     key |-> IF keyed
                             THEN MapKey([j \in 1..m |-> Some(TokenNames[j])])
                             ELSE None,
                     varname |-> Some("T")]
    /\ pc' = "_combine_dict"
    /\ result' = NoResult
    /\ ResetLocals
    /\ UNCHANGED cache

\* a mapping of m2 keys nested under the key o of an outer mapping
NestedEntry(o, m2, kind, k, nt, dim) ==
    [kind |-> "dict",
     files |-> [i \in 1..m2 |-> DictEntry(10 * o + i, kind, k, nt, dim)]]

\* extract_vars -> _extract_var -> combine_files on a mapping of m keys with
\* a token mapping; the entries of the keys in nestedAt are mappings of m2
\* keys, the others are the entries of those mappings themselves (single
\* sources or collections of k sources).  The calls are tried from the empty
\* cache.
extract_vars_nested ==
    /\ pc = "idle"
    /\ UNCHANGED <<ext, view>>
    /\ cache = <<>>
    /\ \E m \in 1..MaxKeys, m2 \in 1..MaxKeys, nestedAt \in SUBSET (1..MaxKeys),
          kind \in {"single", "seq"}, method \in {"cat", "join"},
          sq \in BOOLEAN :
       \E k \in (IF kind = "single" THEN {1} ELSE 1..MaxFiles),
          nt \in 1..MaxTimes, dim \in 1..MaxDim :
          /\ nestedAt \subseteq 1..m
          /\ wrfseq' = [kind |-> "dict",
                        files |-> [o \in 1..m |->
                                     IF o \in nestedAt
                                     THEN NestedEntry(o, m2, kind, k, nt, dim)
                                     ELSE DictEntry(o, kind, k, nt, dim)]]
          /\ req' = [fn |-> "extract_vars", timeidx |-> ALL_TIMES,
                     method |-> method, squeeze |-> sq,
                     key |-> MapKey([o \in 1..m |->
                                       IF o \in nestedAt THEN MapKey([i \in 1..m2 |->
                                                    Some(TokenNames[o]
                                                         \o TokenNames[i])])
                                       ELSE Some(TokenNames[o])]),
                     varname |-> Some("T")]
    /\ pc' = "_combine_dict"
    /\ result' = NoResult
    /\ ResetLocals
    /\ UNCHANGED cache

\* the state of the loop of _combine_dict
DictState ==
    [out |-> outdata, res |-> NoResult, cache |-> cache, calls |-> moving_calls]

\* the program's state after the key at position i is handled with outcome
\* st: an error ends the call, an array is kept and the loop goes on
DictStep(st, i) ==
    /\ cache' = st.cache
    /\ moving_calls' = st.calls
    /\ IF st.res.status = "error"
       THEN /\ result' = st.res
            /\ pc' = "done"
            /\ UNCHANGED <<outdata, dict_idx>>
       ELSE /\ outdata' = st.out
            /\ dict_idx' = i
            /\ pc' = "_combine_dict_loop"
            /\ UNCHANGED result

\* _combine_dict up to the loop: the moving-domain flag of the mapping, then
\* the first key's array and the buffer
_combine_dict ==
    /\ pc = "_combine_dict"
    /\ UNCHANGED <<ext, view>>
    /\ IF is_moving = None
       THEN /\ pc' = "is_moving_domain"
            /\ UNCHANGED <<outdata, dict_idx, result, cache, moving_calls>>
       ELSE DictStep(DictBody(DictState, [req EXCEPT !.squeeze = FALSE],
                              wrfseq, req.key, is_moving[1], 1), 1)
    /\ UNCHANGED <<wrfseq, req, wrf_iter, wrfnc, comboidx, filetimeidx, corners,
                   is_moving, startidx, file_idx, less_than_max>>

\* one iteration of the loop of _combine_dict over the remaining keys, and
\* the return through combine_files once the keys are exhausted
_combine_dict_loop ==
    /\ pc = "_combine_dict_loop"
    /\ UNCHANGED <<ext, view>>
    /\ IF dict_idx >= Len(wrfseq.files)
       THEN /\ result' = Finish(req, outdata)
            /\ pc' = "done"
            /\ UNCHANGED <<outdata, dict_idx, cache, moving_calls>>
       ELSE DictStep(DictBody(DictState, [req EXCEPT !.squeeze = FALSE],
                              wrfseq, req.key, is_moving[1], dict_idx + 1),
                     dict_idx + 1)
    /\ UNCHANGED <<wrfseq, req, wrf_iter, wrfnc, comboidx, filetimeidx, corners,
                   is_moving, startidx, file_idx, less_than_max>>

\* ------------------------------------------- extraction with metadata (meta)
\* extract_vars(..., meta=True) builds the coordinates of the result and
\* goes through the coordinate cache.  The callers are numbered; each has its
\* own call in progress, one step of which is one cache operation (or the
\* computation between two of them).  The coordinates and the cache traffic
\* are modelled, the data values are those of the call without metadata.

\* coord_names[2], None when the attribute names two coordinates only
time_coord(varname) ==
    IF varname # None /\ Coordinates(varname[1]) # None
                      /\ Len(Coordinates(varname[1])[1]) >= 3
    THEN Some(Coordinates(varname[1])[1][3])
    ELSE None

\* the lat/lon coordinate named by the variable's "coordinates" attribute
coord_name(varname, w) ==
    IF w = "lon" THEN Coordinates(varname[1])[1][1]
    ELSE Coordinates(varname[1])[1][2]

\* a step's outcome: the locals and the cache
R(s, c) == [s |-> s, c |-> c]

MetaFail(s, err) ==
    [s EXCEPT !.out = [status |-> "error", err |-> err, coords |-> NoCoords],
              !.pc = "done"]

\* the collection being combined and its token: the entry of the key at
\* position e and _key[key] inside a mapping, the input itself otherwise
CurSeq(s) ==
    IF s.kind = "dict" THEN s.files[s.e]
    ELSE [kind |-> s.kind, files |-> s.files]

\* CurKey with one token for every call
CurKey_shared(s) == Some("k0")

CurKey(s) == IF s.kind = "dict" THEN SubKey(s.key, s.e) ELSE s.key

CurFile(s) == CurSeq(s).files[s.bf]

LogOp(s, op, key, product) ==
    [s EXCEPT !.ops = Append(@, <<op, key, product>>)]

\* wrfnc.variables[name][:] of source i of the collection being combined
LogRead(s, i, name) == [s EXCEPT !.reads = Append(@, <<s.e, i, name>>)]

\* is_moving_domain up to the cache lookup; on a miss the flag is computed
MetaMovingGet(s, c) ==
    LET t == MovingTarget([kind |-> s.kind, files |-> s.files], s.key) IN
    IF get_cached_item(c, t.key, Product(s.varname)) # None
    THEN R([LogOp(s, "get", t.key, Product(s.varname))
              EXCEPT !.moving = get_cached_item(c, t.key, Product(s.varname)),
                     !.pc = "dispatch"], c)
    ELSE R([LogOp(s, "get", t.key, Product(s.varname))
              EXCEPT !.moving = Some(MovingFlag(t.seq.files, s.varname)),
                     !.pc = "mv_put"], c)

\* is_moving_domain: cache_item(_key, product, moving) and the return
MetaMovingPut(s, c) ==
    LET t == MovingTarget([kind |-> s.kind, files |-> s.files], s.key) IN
    R([LogOp(s, "put", t.key, Product(s.varname)) EXCEPT !.pc = "dispatch"],
      cache_item(c, t.key, Product(s.varname), s.moving[1]))

\* _find_forward / _find_reverse: the source and the local index of a time
RECURSIVE LocateForward(_, _, _, _)
LocateForward(files, timeidx, i, combo) ==
    IF i > Len(files) THEN None
    ELSE IF Located(timeidx, combo, extract_dim(files[i]))
    THEN Some([i |-> i, t |-> ForwardIdx(timeidx, combo)])
    ELSE LocateForward(files, timeidx, i + 1, combo + extract_dim(files[i]))

RECURSIVE LocateReverse(_, _, _, _)
LocateReverse(files, revtimeidx, i, combo) ==
    IF i > Len(files) THEN None
    ELSE IF Located(revtimeidx, combo, extract_dim(Reversed(files)[i]))
    THEN Some([i |-> Len(files) + 1 - i,
               t |-> ReverseIdx(extract_dim(Reversed(files)[i]), revtimeidx,
                                combo)])
    ELSE LocateReverse(files, revtimeidx, i + 1,
                       combo + extract_dim(Reversed(files)[i]))

MetaLocate(files, timeidx) ==
    IF FindDirection(timeidx) = "_find_forward"
    THEN LocateForward(files, timeidx, 1, 0)
    ELSE LocateReverse(files, (0 - timeidx) - 1, 1, 0)

\* _build_data_array(wrfnc, varname, timeidx, is_moving, is_multifile, _key)
\* up to the coordinates: the read of the data fails on a time index outside
\* the source; a variable without coordinates gets none
BdaStart(s, i, t, multifile) ==
    IF ~is_multi_time_req(t) /\ ~InBounds(t[1], extract_dim(CurSeq(s).files[i]))
    THEN MetaFail(s, "IndexError")
    ELSE [s EXCEPT !.bf = i, !.bt = t, !.bm = multifile,
                   !.dims = NoPair, !.vals = NoPair, !.time_vals = None,
                   !.pc = IF Coordinates(s.varname[1]) # None
                          THEN "lon_dim_get" ELSE "bda_done"]

\* the located source of a cat call for one time, if any
BdaLocated(s, loc) ==
    IF loc = None THEN MetaFail(s, "IndexError")
    ELSE BdaStart(s, loc[1].i, Some(loc[1].t), TRUE)

\* _extract_var / combine_files once the moving flag is known: a mapping
\* takes its entries in turn with the subtoken _key[key]; one source is read
\* by _build_data_array; a collection goes to _cat_files or _join_files
MetaDispatch(s) ==
    IF s.kind = "dict" /\ s.key = None THEN MetaFail(s, "TypeError")
    ELSE IF s.kind = "dict" /\ s.e = 0 THEN [s EXCEPT !.e = 1]
    ELSE IF CurSeq(s).kind = "single" THEN BdaStart(s, 1, s.timeidx, FALSE)
    ELSE IF Dispatch(s.method) = "raise" THEN MetaFail(s, "ValueError")
    ELSE IF Dispatch(s.method) = "_cat_files" /\ ~is_multi_time_req(s.timeidx)
    THEN BdaLocated(s, MetaLocate(CurSeq(s).files, s.timeidx[1]))
    ELSE BdaStart(s, 1, ALL_TIMES, TRUE)

\* get_cached_item(_key, <coord>_dim) for the coordinate w ("lon", "lat")
BdaDimGet(s, c, w) ==
    R([LogOp(s, "get", CurKey(s), coord_name(s.varname, w) \o "_dim")
         EXCEPT !.dims[w] = get_cached_item(c, CurKey(s),
                                coord_name(s.varname, w) \o "_dim"),
                !.pc = w \o "_val_get"], c)

\* BdaRead caching the coordinate whatever the moving flag
BdaRead_always(s, w) ==
    [LogRead(s, s.bf, coord_name(s.varname, w))
       EXCEPT !.dims[w] = Some(<<"Time", "south_north", "west_east">>),
              !.vals[w] = Some(CoordVar(CurFile(s), coord_name(s.varname, w))),
              !.pc = w \o "_dim_put"]

\* the coordinate w read from the source after a miss; it is cached here
\* only if the domain is not moving
BdaRead(s, w) ==
    [LogRead(s, s.bf, coord_name(s.varname, w))
       EXCEPT !.dims[w] = Some(<<"Time", "south_north", "west_east">>),
              !.vals[w] = Some(CoordVar(CurFile(s), coord_name(s.varname, w))),
              !.pc = IF ~s.moving[1] THEN w \o "_dim_put"
                     ELSE IF w = "lon" THEN "lat_dim_get" ELSE "time_coord"]

\* get_cached_item(_key, <coord>_val), and the read if either is missing
BdaValGet(s, c, w) ==
    LET v == get_cached_item(c, CurKey(s), coord_name(s.varname, w) \o "_val")
        s1 == LogOp(s, "get", CurKey(s), coord_name(s.varname, w) \o "_val")
    IN IF s.dims[w] = None \/ v = None
       THEN R(BdaRead(s1, w), c)
       ELSE R([s1 EXCEPT !.vals[w] = v,
                         !.pc = IF w = "lon" THEN "lat_dim_get"
                                ELSE "time_coord"], c)

\* cache_item(_key, <coord>_dim, dims)
BdaDimPut(s, c, w) ==
    R([LogOp(s, "put", CurKey(s), coord_name(s.varname, w) \o "_dim")
         EXCEPT !.pc = w \o "_val_put"],
      cache_item(c, CurKey(s), coord_name(s.varname, w) \o "_dim",
                 s.dims[w][1]))

\* cache_item(_key, <coord>_val, vals)
BdaValPut(s, c, w) ==
    R([LogOp(s, "put", CurKey(s), coord_name(s.varname, w) \o "_val")
         EXCEPT !.pc = IF w = "lon" THEN "lat_dim_get" ELSE "time_coord"],
      cache_item(c, CurKey(s), coord_name(s.varname, w) \o "_val",
                 s.vals[w][1]))

\* the time coordinate: looked up in the cache for one source, read from
\* the source of a collection
BdaTimeCoord(s) ==
    IF time_coord(s.varname) = None THEN [s EXCEPT !.pc = "bda_done"]
    ELSE IF ~s.bm THEN [s EXCEPT !.pc = "time_get"]
    ELSE [LogRead(s, s.bf, time_coord(s.varname)[1])
            EXCEPT !.time_vals = Some(CoordVar(CurFile(s),
                                               time_coord(s.varname)[1])),
                   !.pc = "bda_done"]

\* get_cached_item(_key, time_coord) and the read after a miss
BdaTimeGet(s, c) ==
    LET v == get_cached_item(c, CurKey(s), time_coord(s.varname)[1])
        s1 == LogOp(s, "get", CurKey(s), time_coord(s.varname)[1])
    IN IF v = None
       THEN R([LogRead(s1, s.bf, time_coord(s.varname)[1])
                 EXCEPT !.time_vals = Some(CoordVar(CurFile(s),
                                                    time_coord(s.varname)[1])),
                        !.pc = "time_put"], c)
       ELSE R([s1 EXCEPT !.time_vals = v, !.pc = "bda_done"], c)

\* cache_item(_key, time_coord, time_coord_vals)
BdaTimePut(s, c) ==
    R([LogOp(s, "put", CurKey(s), time_coord(s.varname)[1])
         EXCEPT !.pc = "bda_done"],
      cache_item(c, CurKey(s), time_coord(s.varname)[1], s.time_vals[1]))

\* the number of times held by coordinate values
NumTimes(v) == Cardinality(DOMAIN v)

\* get_proj_params / getproj: the projection of a source at time t is made
\* of the source's own lat/lon at that time
ProjAt(s, t) ==
    <<"proj", CoordVar(CurFile(s), coord_name(s.varname, "lat"))[t],
              CoordVar(CurFile(s), coord_name(s.varname, "lon"))[t]>>

\* coords and attrs["projection"] of the array _build_data_array returns
BdaCoords(s) ==
    IF is_multi_time_req(s.bt)
    THEN IF s.moving[1]
         THEN [lon |-> s.vals.lon, lat |-> s.vals.lat, time |-> s.time_vals,
               proj |-> Some([t \in Range0(extract_dim(CurFile(s))) |->
                                ProjAt(s, t)])]
         ELSE [lon |-> Some(s.vals.lon[1][0]), lat |-> Some(s.vals.lat[1][0]),
               time |-> s.time_vals, proj |-> Some(ProjAt(s, 0))]
    ELSE [lon |-> Some(s.vals.lon[1][PyIdx(s.bt[1], NumTimes(s.vals.lon[1]))]),
          lat |-> Some(s.vals.lat[1][PyIdx(s.bt[1], NumTimes(s.vals.lat[1]))]),
          time |-> IF s.time_vals = None THEN None
                   ELSE Some(<<s.time_vals[1][PyIdx(s.bt[1],
                                                NumTimes(s.time_vals[1]))]>>),
          proj |-> Some(ProjAt(s, 0))]

\* the time index fits the coordinate values in hand
BdaIndexOk(s) ==
    is_multi_time_req(s.bt)
    \/ /\ InBounds(s.bt[1], NumTimes(s.vals.lon[1]))
       /\ InBounds(s.bt[1], NumTimes(s.vals.lat[1]))
       /\ s.time_vals # None => InBounds(s.bt[1], NumTimes(s.time_vals[1]))

IsCat(s) == Dispatch(s.method) = "_cat_files"

\* where the array built by _build_data_array goes: it is the result for
\* one source and for a cat call for one time; otherwise it is first_var of
\* _cat_files/_join_files
BdaReturn(s, coords) ==
    IF CurSeq(s).kind = "single" \/ (IsCat(s) /\ ~is_multi_time_req(s.timeidx))
    THEN [s EXCEPT !.res = coords, !.pc = "entry_done"]
    ELSE [s EXCEPT !.first_var = coords,
                   !.cached = MetaIdle.cached, !.outs = MetaIdle.outs,
                   !.i = 2, !.pc = "agg_time_get"]

BdaDone(s) ==
    IF Coordinates(s.varname[1]) = None THEN BdaReturn(s, NoCoords)
    ELSE IF ~BdaIndexOk(s) THEN MetaFail(s, "IndexError")
    ELSE BdaReturn(s, BdaCoords(s))

\* "_cat" or "_join"
Sfx(s) == IF IsCat(s) THEN "_cat" ELSE "_join"

\* the name an aggregated product is cached under
AggName(s, w) ==
    IF w = "time" THEN time_coord(s.varname)[1] \o Sfx(s)
    ELSE IF w = "proj" THEN "projection" \o Sfx(s)
    ELSE coord_name(s.varname, w) \o Sfx(s)

\* the new buffer of an aggregated coordinate: np.empty over all times for
\* cat, np.full(fill) over sources and the longest extent for join
AggEmpty(s) ==
    IF IsCat(s)
    THEN [g \in 1..SumTimes(CurSeq(s).files) |-> UNINIT]
    ELSE [i \in 1.._get_numfiles(CurSeq(s).files) |->
            [t \in 1.._find_max_time_size(CurSeq(s).files) |-> DEFAULT_FILL]]

\* out[startidx:endidx] = v for cat, out[file_idx, 0:numtimes] = v for join,
\* v being the values of source i
AggWrite(s, buf, i, v) ==
    IF IsCat(s)
    THEN LET start == SumTimes(SubSeq(CurSeq(s).files, 1, i - 1)) IN
         [g \in DOMAIN buf |->
            IF g > start /\ g <= start + NumTimes(v) THEN v[g - start - 1]
            ELSE buf[g]]
    ELSE [buf EXCEPT ![i] = [t \in DOMAIN @ |->
                               IF t <= NumTimes(v) THEN v[t - 1] ELSE @[t]]]

\* get_cached_item(_key, <name>_cat/_join); after a miss the buffer is made
\* and the values of first_var are written
AggGet(s, c, w, nextpc) ==
    LET v == get_cached_item(c, CurKey(s), AggName(s, w))
        s1 == LogOp(s, "get", CurKey(s), AggName(s, w))
    IN IF v = None
       THEN R([s1 EXCEPT !.outs[w] = Some(AggWrite(s, AggEmpty(s), 1,
                                                    s.first_var[w][1])),
                         !.pc = nextpc], c)
       ELSE R([s1 EXCEPT !.outs[w] = v, !.cached[w] = TRUE, !.pc = nextpc], c)

\* the lookups of _cat_files/_join_files in their order: the time coordinate
\* if first_var has one, then lat, lon and the projections of a moving domain
AggTimeGet(s, c) ==
    IF s.first_var.time = None
    THEN R([s EXCEPT !.pc = IF s.moving[1] THEN "agg_lat_get"
                            ELSE "agg_loop"], c)
    ELSE AggGet(s, c, "time", IF s.moving[1] THEN "agg_lat_get"
                              ELSE "agg_loop")

AggCoordGet(s, c, w, nextpc) ==
    IF s.first_var[w] = None THEN R([s EXCEPT !.pc = nextpc], c)
    ELSE AggGet(s, c, w, nextpc)

AggProjGet(s, c) ==
    IF s.first_var.proj = None THEN R(MetaFail(s, "KeyError"), c)
    ELSE AggGet(s, c, "proj", "agg_loop")

\* the loop body for source i: a coordinate that did not come from the
\* cache is read from the source and written to its buffer
AggFile(s, w, name) ==
    IF s.first_var[w] # None /\ ~s.cached[w] /\ (w = "time" \/ s.moving[1])
    THEN [LogRead(s, s.i, name)
            EXCEPT !.outs[w] = Some(AggWrite(s, @[1], s.i,
                                             CoordVar(CurSeq(s).files[s.i],
                                                      name)))]
    ELSE s

AggFileProj(s) ==
    IF s.moving[1] /\ ~s.cached.proj
    THEN [s EXCEPT !.outs.proj =
            Some(AggWrite(s, @[1], s.i,
                   [t \in Range0(extract_dim(CurSeq(s).files[s.i])) |->
                      ProjAt([s EXCEPT !.bf = s.i], t)]))]
    ELSE s

AggNames(s, w) ==
    IF w = "time" THEN (IF time_coord(s.varname) = None THEN ""
                        ELSE time_coord(s.varname)[1])
    ELSE IF Coordinates(s.varname[1]) = None THEN ""
    ELSE coord_name(s.varname, w)

\* AggLoop leaving the loop after the second source
AggLoop_short(s) ==
    IF s.i > 2 THEN [s EXCEPT !.pc = "agg_lat_put"]
    ELSE [AggFileProj(AggFile(AggFile(AggFile(s, "time", AggNames(s, "time")),
                                      "lat", AggNames(s, "lat")),
                              "lon", AggNames(s, "lon")))
            EXCEPT !.i = @ + 1]

\* one iteration of the loop of _cat_files/_join_files: the data of source i
\* are written to the output buffer first, which fails when their non-time
\* shape cannot be broadcast to that of first_var
AggLoop(s) ==
    IF s.i > Len(CurSeq(s).files) THEN [s EXCEPT !.pc = "agg_lat_put"]
    ELSE IF ~Broadcastable(Tail(CurSeq(s).files[s.i].var.shape),
                           Tail(CurSeq(s).files[1].var.shape))
    THEN MetaFail(s, "ValueError")
    ELSE [AggFileProj(AggFile(AggFile(AggFile(s, "time", AggNames(s, "time")),
                                      "lat", AggNames(s, "lat")),
                              "lon", AggNames(s, "lon")))
            EXCEPT !.i = @ + 1]

\* cache_item(_key, <name>_cat/_join, out) unless it came from the cache
AggPut(s, c, w, nextpc) ==
    IF ~s.cached[w] /\ s.outs[w] # None
    THEN R([LogOp(s, "put", CurKey(s), AggName(s, w)) EXCEPT !.pc = nextpc],
           cache_item(c, CurKey(s), AggName(s, w), s.outs[w][1]))
    ELSE R([s EXCEPT !.pc = nextpc], c)

\* out[:, time_idx_or_slice] of _join_files, with the new axis for one time
JoinCut(s, buf, newaxis) ==
    IF IsCat(s) \/ is_multi_time_req(s.timeidx) THEN buf
    ELSE [i \in DOMAIN buf |->
            IF newaxis THEN <<buf[i][PyIdx(s.timeidx[1], Len(buf[i])) + 1]>>
            ELSE buf[i][PyIdx(s.timeidx[1], Len(buf[i])) + 1]]

\* the coordinates of the combined array: those of first_var, the
\* aggregated time coordinate, and for a moving domain the aggregated lat,
\* lon and projections
AggCoords(s) ==
    [time |-> IF s.first_var.time = None THEN None
              ELSE Some(JoinCut(s, s.outs.time[1], TRUE)),
     lat |-> IF s.moving[1] /\ s.outs.lat # None
             THEN Some(JoinCut(s, s.outs.lat[1], TRUE)) ELSE s.first_var.lat,
     lon |-> IF s.moving[1] /\ s.outs.lon # None
             THEN Some(JoinCut(s, s.outs.lon[1], TRUE)) ELSE s.first_var.lon,
     proj |-> IF s.moving[1] THEN Some(JoinCut(s, s.outs.proj[1], FALSE))
              ELSE s.first_var.proj]

AggDone(s) ==
    IF /\ ~IsCat(s) /\ ~is_multi_time_req(s.timeidx)
       /\ ~InBounds(s.timeidx[1], _find_max_time_size(CurSeq(s).files))
    THEN MetaFail(s, "IndexError")
    ELSE [s EXCEPT !.res = AggCoords(s), !.pc = "entry_done"]

\* the shape of the array of the entry at position e of a mapping
EntryShape(s, e) ==
    ExtractVar(<<>>, [fn |-> "extract_vars", timeidx |-> s.timeidx,
                      method |-> s.method, squeeze |-> FALSE, key |-> None,
                      varname |-> s.varname],
               s.files[e], FALSE, None).res.arr.shape

\* the return of _extract_var; inside _combine_dict the array of a later key
\* must have the shape of the first, and the result takes the coordinates
\* of the first array
EntryDone(s) ==
    IF s.kind # "dict"
    THEN [s EXCEPT !.out = [status |-> "ok", err |-> "", coords |-> s.res],
                   !.pc = "done"]
    ELSE IF s.e > 1 /\ EntryShape(s, s.e) # EntryShape(s, 1)
    THEN MetaFail(s, "ValueError")
    ELSE IF s.e < Len(s.files)
    THEN [s EXCEPT !.arrays = Append(@, s.res), !.e = @ + 1,
                   !.pc = "dispatch"]
    ELSE [s EXCEPT !.arrays = Append(@, s.res),
                   !.out = [status |-> "ok", err |-> "",
                            coords |-> Append(s.arrays, s.res)[1]],
                   !.pc = "done"]

\* combine_files on a collection: the method is checked before anything else
MetaStart(s) ==
    IF s.kind = "seq" /\ Dispatch(s.method) = "raise"
    THEN MetaFail(s, "ValueError")
    ELSE [s EXCEPT !.pc = "mv_get"]

\* one step of a call from the locals s and the cache c
MetaStep(s, c) ==
    CASE s.pc = "start" -> R(MetaStart(s), c)
      [] s.pc = "mv_get" -> MetaMovingGet(s, c)
      [] s.pc = "mv_put" -> MetaMovingPut(s, c)
      [] s.pc = "dispatch" -> R(MetaDispatch(s), c)
      [] s.pc = "lon_dim_get" -> BdaDimGet(s, c, "lon")
      [] s.pc = "lon_val_get" -> BdaValGet(s, c, "lon")
      [] s.pc = "lon_dim_put" -> BdaDimPut(s, c, "lon")
      [] s.pc = "lon_val_put" -> BdaValPut(s, c, "lon")
      [] s.pc = "lat_dim_get" -> BdaDimGet(s, c, "lat")
      [] s.pc = "lat_val_get" -> BdaValGet(s, c, "lat")
      [] s.pc = "lat_dim_put" -> BdaDimPut(s, c, "lat")
      [] s.pc = "lat_val_put" -> BdaValPut(s, c, "lat")
      [] s.pc = "time_coord" -> R(BdaTimeCoord(s), c)
      [] s.pc = "time_get" -> BdaTimeGet(s, c)
      [] s.pc = "time_put" -> BdaTimePut(s, c)
      [] s.pc = "bda_done" -> R(BdaDone(s), c)
      [] s.pc = "agg_time_get" -> AggTimeGet(s, c)
      [] s.pc = "agg_lat_get" -> AggCoordGet(s, c, "lat", "agg_lon_get")
      [] s.pc = "agg_lon_get" -> AggCoordGet(s, c, "lon", "agg_proj_get")
      [] s.pc = "agg_proj_get" -> AggProjGet(s, c)
      [] s.pc = "agg_loop" -> R(AggLoop(s), c)
      [] s.pc = "agg_lat_put" -> AggPut(s, c, "lat", "agg_lon_put")
      [] s.pc = "agg_lon_put" -> AggPut(s, c, "lon", "agg_proj_put")
      [] s.pc = "agg_proj_put" -> AggPut(s, c, "proj", "agg_time_put")
      [] s.pc = "agg_time_put" -> AggPut(s, c, "time", "agg_done")
      [] s.pc = "agg_done" -> R(AggDone(s), c)
      [] s.pc = "entry_done" -> R(EntryDone(s), c)
      [] OTHER -> R(s, c)

\* a call run alone to its end
RECURSIVE MetaRun(_)
MetaRun(r) == IF r.s.pc \in {"done", "idle"} THEN r
              ELSE MetaRun(MetaStep(r.s, r.c))

\* A family of calls with metadata gives the callers, the calls each may make,
\* the kinds of input, the methods, the time indexes, the variables, the
\* tokens of each caller, whether the grid may have moved, whether a
\* caller's later call repeats its previous one, the numbers of sources of a
\* collection, the extents of a source and the numbers of keys of a mapping.
\* the token mapping of a mapping of m keys under the token key
MetaDictKey(key, m) ==
    IF key = None THEN None
    ELSE MapKey([j \in 1..m |-> Some(key[1] \o TokenNames[j])])

\* what is kept of a call once it has returned
MetaSummary(s) ==
    Some([kind |-> s.kind, files |-> s.files, method |-> s.method,
          timeidx |-> s.timeidx, key |-> s.key, varname |-> s.varname,
          reads |-> s.reads, status |-> s.out.status])

\* the tokens of a token or of a token mapping
RECURSIVE TokensOf(_)
TokensOf(key) ==
    IF key = None THEN {}
    ELSE IF key[1] = "map"
    THEN UNION {TokensOf(key[2][j]) : j \in 1..Len(key[2])}
    ELSE {key[1]}

\* the entries of the cache c under the tokens of key
OwnCache(c, key) ==
    [kp \in {x \in DOMAIN c : x[1] \in TokensOf(key)} |-> c[kp]]

\* the call repeats the call summarised in prev
Repeats(s, prev) ==
    /\ s.kind = prev.kind /\ s.files = prev.files /\ s.method = prev.method
    /\ s.timeidx = prev.timeidx /\ s.key = prev.key
    /\ s.varname = prev.varname

\* extract_vars(wrfnc, timeidx, varname, method, squeeze, None, True, _key)
\* by caller p on a call of the family fam
MetaCall(p, fam) ==
    /\ p \in fam.procs
    /\ ext[p].pc = "idle"
    /\ ext[p].ncalls < fam.maxcalls
    /\ \E kind \in fam.kinds, method \in fam.methods, timeidx \in fam.times,
          key \in fam.keys[p], varname \in fam.vars :
       \E ekind \in (IF kind = "dict" THEN {"single", "seq"} ELSE {kind}),
          m \in (IF kind = "dict" THEN fam.ms ELSE {1}) :
       \E k \in (IF ekind = "single" THEN {1} ELSE fam.ks), nt \in fam.nts :
       \E movedAt \in (IF fam.moving /\ kind # "dict" THEN {0, k} ELSE {0}),
          dim \in (IF kind = "seq" /\ k > 1 THEN fam.dims ELSE {1}) :
          /\ ext' = [ext EXCEPT ![p] =
                    [MetaIdle EXCEPT
                       !.pc = "start", !.kind = kind,
                       !.files = IF kind = "dict"
                                 THEN [j \in 1..m |->
                                         DictEntry(j, ekind, k, nt, 1)]
                                 ELSE [MovedFiles(k, [i \in 1..k |-> nt],
                                                  movedAt)
                                         EXCEPT ![k].var =
                                            MkFile(k, nt, dim, FALSE,
                                                   [t \in Range0(nt) |-> 0]).var],
                       !.method = method, !.timeidx = timeidx,
                       !.key = IF kind = "dict" THEN MetaDictKey(key, m)
                               ELSE key,
                       !.varname = Some(varname),
                       !.c0 = OwnCache(cache,
                                       IF kind = "dict" THEN MetaDictKey(key, m)
                                       ELSE key),
                       !.ncalls = ext[p].ncalls + 1, !.prev = ext[p].prev]]
          /\ (fam.repeat /\ ext[p].prev # None)
                => Repeats(ext'[p], ext[p].prev[1])
    /\ UNCHANGED cache
    /\ UNCHANGED <<prog, view>>

\* calls on one source or on an ordered collection, made twice
meta_extract_vars(p) ==
    MetaCall(p, [procs |-> {1}, maxcalls |-> 2, kinds |-> {"single", "seq"},
              methods |-> {"cat", "join"},
              times |-> {ALL_TIMES, Some(0), Some(0 - 1)},
              vars |-> {"T", "P"}, keys |-> [q \in Procs |-> {Some("k1")}],
              moving |-> TRUE, repeat |-> TRUE, ks |-> 1..MaxFiles,
              nts |-> 1..MaxTimes, ms |-> {1}, dims |-> {1, MaxDim}])

\* calls on mappings, with a token mapping or without a token
meta_extract_vars_dict(p) ==
    MetaCall(p, [procs |-> {1}, maxcalls |-> 1, kinds |-> {"dict"},
              methods |-> {"cat", "join"}, times |-> {ALL_TIMES, Some(0)},
              vars |-> {"T", "P"}, keys |-> [q \in Procs |-> {Some("k1"), None}],
              moving |-> FALSE, repeat |-> TRUE, ks |-> 1..MaxFiles,
              nts |-> 1..MaxTimes, ms |-> 1..MaxKeys, dims |-> {1}])

\* two callers with a token each: the first makes any call on two sources
\* or on a mapping of two keys, the second an all-times cat call
meta_extract_vars_first(p) ==
    MetaCall(p, [procs |-> {1}, maxcalls |-> 1, kinds |-> {"single", "seq", "dict"},
              methods |-> {"cat", "join"}, times |-> {ALL_TIMES, Some(0)},
              vars |-> {"T"}, keys |-> [q \in Procs |-> {Some("k1")}],
              moving |-> TRUE, repeat |-> FALSE, ks |-> {2}, nts |-> {MaxTimes},
              ms |-> {2}, dims |-> {1}])

meta_extract_vars_second(p) ==
    MetaCall(p, [procs |-> {2}, maxcalls |-> 1, kinds |-> {"seq"}, methods |-> {"cat"},
              times |-> {ALL_TIMES}, vars |-> {"T"},
              keys |-> [q \in Procs |-> {Some("k2")}],
              moving |-> TRUE, repeat |-> FALSE, ks |-> {2}, nts |-> {1}, ms |-> {1},
              dims |-> {1}])

\* the steps of a call made in the functions named
MetaAct(p, labels) ==
    /\ ext[p].pc \in labels
    /\ ext' = [ext EXCEPT ![p] = MetaStep(ext[p], cache).s]
    /\ cache' = MetaStep(ext[p], cache).c
    /\ UNCHANGED <<prog, view>>

meta_extract_var(p) == MetaAct(p, {"start", "dispatch", "entry_done"})

meta_is_moving_domain(p) == MetaAct(p, {"mv_get", "mv_put"})

meta_build_data_array(p) ==
    MetaAct(p, {"lon_dim_get", "lon_val_get", "lon_dim_put", "lon_val_put",
                "lat_dim_get", "lat_val_get", "lat_dim_put", "lat_val_put",
                "time_coord", "time_get", "time_put", "bda_done"})

meta_combine(p) ==
    MetaAct(p, {"agg_time_get", "agg_lat_get", "agg_lon_get", "agg_proj_get",
                "agg_loop", "agg_lat_put", "agg_lon_put", "agg_proj_put",
                "agg_time_put", "agg_done"})

\* the call is over: its locals are gone, the cache stays
meta_return(p) ==
    /\ ext[p].pc = "done"
    /\ ext' = [ext EXCEPT ![p] = [MetaIdle EXCEPT !.ncalls = ext[p].ncalls,
                                                  !.prev = MetaSummary(ext[p])]]
    /\ UNCHANGED cache
    /\ UNCHANGED <<prog, view>>

\* ------------------------------------------------------- sequence normalizer
\* An ordered collection of n sources (source i is the i-th it yields) is a
\* list, a tuple, a generator not yet started, or an object of a class whose
\* __iter__ returns the object itself.  A generator's function lives in a
\* module (inspect.getmodule finds it: module = Some(name)) or was typed into
\* the interpreter or a notebook (module = None).  An object of a custom
\* class keeps its position pos in an attribute of its own (state "own", as
\* TestGen._i) or in an object its attribute refers to (state "shared", as
\* an iterator or an open listing it holds on to).
\* An iterator is [pos, shared, out, done]: its own position, whether it
\* reads and moves the wrapped object's position instead, the sources it has
\* yielded, and whether it has raised StopIteration.
NewIter(pos, shared) ==
    [pos |-> pos, shared |-> shared, out |-> <<>>, done |-> FALSE]

\* _generator_copy(gen): module.get(funcname)(**locals) when the module is
\* found, a module object having no attribute "get"; else the function is
\* looked up in __main__ and called again with the generator's arguments
_generator_copy(v) ==
    IF v.module # None
    THEN [v EXCEPT !.pc = "error", !.err = "AttributeError"]
    ELSE [v EXCEPT !.iters = Append(@, NewIter(0, FALSE))]

\* IterWrapper.__iter__: a copy of the generator, or copy(wrapped).__iter__():
\* the shallow copy has the attributes of the wrapped object, so its own
\* position starts at the wrapped object's and a shared position stays shared
IterWrapper_iter(v) ==
    IF v.type = "generator"
    THEN _generator_copy(v)
    ELSE [v EXCEPT !.iters = Append(@, NewIter(v.pos, v.state = "shared"))]

\* next(it) on the i-th iterator of the view: the next source, or
\* StopIteration
IterNext(v, i) ==
    LET it == v.iters[i]
        at == IF it.shared THEN v.pos ELSE it.pos IN
    IF at >= v.n
    THEN [v EXCEPT !.iters[i].done = TRUE]
    ELSE [v EXCEPT !.iters[i].out = Append(@, at + 1),
                   !.iters[i].pos = IF it.shared THEN @ ELSE at + 1,
                   !.pos = IF it.shared THEN at + 1 ELSE @]

\* get_iterable(wrfseq) on an ordered collection
get_iterable ==
    /\ view.pc = "idle"
    /\ \E type \in {"list", "tuple", "generator", "custom"}, n \in 1..MaxFiles,
          module \in {None, Some("mod")}, state \in {"own", "shared"} :
          /\ type # "generator" => module = None
          /\ type # "custom" => state = "own"
          /\ view' = [NoView EXCEPT !.pc = "ready", !.type = type, !.n = n,
                                    !.module = module, !.state = state,
                                    !.wrapper = type \notin {"list", "tuple"}]
    /\ UNCHANGED <<prog, cache, ext>>

\* iter(wrfseq) on what get_iterable returned: a pass of a combiner begins
iter_view ==
    /\ view.pc = "ready"
    /\ Len(view.iters) < MaxPasses
    /\ view' = IF view.wrapper THEN IterWrapper_iter(view)
               ELSE [view EXCEPT !.iters = Append(@, NewIter(0, FALSE))]
    /\ UNCHANGED <<prog, cache, ext>>

\* next(wrf_iter) on one of the iterators
next_view ==
    /\ view.pc = "ready"
    /\ \E i \in 1..Len(view.iters) :
          /\ ~view.iters[i].done
          /\ view' = IterNext(view, i)
    /\ UNCHANGED <<prog, cache, ext>>

\* the collection and its iterators are dropped
drop_view ==
    /\ view.pc \in {"ready", "error"}
    /\ view' = NoView
    /\ UNCHANGED <<prog, cache, ext>>

\* ------------------------------------------------------------------ return
\* the call is over: its arguments, locals and result are gone, the cache stays
Return ==
    /\ pc = "done"
    /\ UNCHANGED <<ext, view>>
    /\ pc' = "idle"
    /\ wrfseq' = NoSeq
    /\ req' = NoReq
    /\ result' = NoResult
    /\ ResetLocals
    /\ UNCHANGED cache

Next ==
    \/ extract_vars
    \/ is_moving_domain_call
    \/ is_moving_domain
    \/ is_moving_loop
    \/ _cat_files
    \/ _cat_loop
    \/ _find_forward
    \/ _find_reverse
    \/ _join_files
    \/ _join_loop
    \/ extract_vars_dict
    \/ extract_vars_nested
    \/ _combine_dict
    \/ _combine_dict_loop
    \/ Return

Spec == Init /\ [][Next]_vars

\* the time-index locator: cat calls for one time
NextLocate ==
    \/ extract_vars_locate
    \/ is_moving_domain
    \/ is_moving_loop
    \/ _cat_files
    \/ _find_forward
    \/ _find_reverse
    \/ Return

SpecLocate == Init /\ [][NextLocate]_vars

\* the cat combiner, on sources whose non-time shapes may differ
NextCat ==
    \/ extract_vars_cat
    \/ is_moving_domain
    \/ is_moving_loop
    \/ _cat_files
    \/ _cat_loop
    \/ _find_forward
    \/ _find_reverse
    \/ Return

SpecCat == Init /\ [][NextCat]_vars

\* the join combiner, on sources that may hold the fill value as data
NextJoin ==
    \/ extract_vars_join
    \/ is_moving_domain
    \/ is_moving_loop
    \/ _join_files
    \/ _join_loop
    \/ Return

SpecJoin == Init /\ [][NextJoin]_vars

\* extraction from one source
NextSingle ==
    \/ extract_vars_single
    \/ Return

SpecSingle == Init /\ [][NextSingle]_vars

\* extractions that share a cache token
NextToken ==
    \/ extract_vars_token
    \/ is_moving_domain
    \/ is_moving_loop
    \/ _cat_files
    \/ _find_forward
    \/ _join_files
    \/ _join_loop
    \/ Return

SpecToken == Init /\ [][NextToken]_vars

\* extractions from mappings
NextDict ==
    \/ extract_vars_dict
    \/ is_moving_domain
    \/ is_moving_loop
    \/ _combine_dict
    \/ _combine_dict_loop
    \/ Return

SpecDict == Init /\ [][NextDict]_vars

\* the squeeze of the facade, for every kind of input
NextSqueeze ==
    \/ extract_vars_squeeze
    \/ extract_vars_dict
    \/ is_moving_domain
    \/ is_moving_loop
    \/ _cat_files
    \/ _cat_loop
    \/ _find_forward
    \/ _find_reverse
    \/ _join_files
    \/ _join_loop
    \/ _combine_dict
    \/ _combine_dict_loop
    \/ Return

SpecSqueeze == Init /\ [][NextSqueeze]_vars

\* the sequence normalizer and the passes over its view
NextIter ==
    \/ get_iterable
    \/ iter_view
    \/ next_view
    \/ drop_view

SpecIter == Init /\ [][NextIter]_vars

\* the moving-domain detector on every kind of input
NextDetect ==
    \/ is_moving_domain_request
    \/ is_moving_domain
    \/ is_moving_loop
    \/ Return

SpecDetect == Init /\ [][NextDetect]_vars

\* calls on mappings whose entries may be mappings
NextNested ==
    \/ extract_vars_nested
    \/ is_moving_domain
    \/ is_moving_loop
    \/ _combine_dict
    \/ _combine_dict_loop
    \/ Return

SpecNested == Init /\ [][NextNested]_vars

\* calls with metadata made one after the other by one caller
NextMeta ==
    \/ \E p \in Procs : meta_extract_vars(p)
    \/ \E p \in Procs : meta_extract_var(p)
    \/ \E p \in Procs : meta_is_moving_domain(p)
    \/ \E p \in Procs : meta_build_data_array(p)
    \/ \E p \in Procs : meta_combine(p)
    \/ \E p \in Procs : meta_return(p)

SpecMeta == Init /\ [][NextMeta]_vars

\* calls with metadata on mappings
NextMetaDict ==
    \/ \E p \in Procs : meta_extract_vars_dict(p)
    \/ \E p \in Procs : meta_extract_var(p)
    \/ \E p \in Procs : meta_is_moving_domain(p)
    \/ \E p \in Procs : meta_build_data_array(p)
    \/ \E p \in Procs : meta_combine(p)
    \/ \E p \in Procs : meta_return(p)

SpecMetaDict == Init /\ [][NextMetaDict]_vars

\* two callers whose calls with metadata interleave
NextTwo ==
    \/ \E p \in Procs : meta_extract_vars_first(p)
    \/ \E p \in Procs : meta_extract_vars_second(p)
    \/ \E p \in Procs : meta_extract_var(p)
    \/ \E p \in Procs : meta_is_moving_domain(p)
    \/ \E p \in Procs : meta_build_data_array(p)
    \/ \E p \in Procs : meta_combine(p)
    \/ \E p \in Procs : meta_return(p)

SpecTwo == Init /\ [][NextTwo]_vars

\* ---------------------------------------------------------------- cache token
\* An object has an identity (addr), unique among the objects alive.  One
\* source and an ordered collection of n sources are objects that are no
\* mapping; a mapping holds an object under each of its keys, which are
\* taken in their order.  The object under the j-th key of the mapping at
\* address a is at address a \o TokenNames[j].
Leaves(a) ==
    {[kind |-> "single", addr |-> a]}
        \cup {[kind |-> "seq", addr |-> a, n |-> k] : k \in 1..MaxFiles}

\* the objects under the keys j..m of the mapping at address a, none of them
\* a mapping
RECURSIVE LeafEntries(_, _, _)
LeafEntries(a, j, m) ==
    IF j > m THEN {<<>>}
    ELSE {<<x>> \o r : x \in Leaves(a \o TokenNames[j]),
                       r \in LeafEntries(a, j + 1, m)}

\* the mappings at address a that hold no mapping
FlatMappings(a) ==
    {[kind |-> "dict", addr |-> a, vals |-> v] :
        v \in UNION {LeafEntries(a, 1, m) : m \in 1..MaxKeys}}

\* one source, ordered collections, mappings, and mappings whose first entry
\* is a mapping itself
Collections ==
    Leaves("o") \cup FlatMappings("o")
        \cup {[kind |-> "dict", addr |-> "o", vals |-> <<x>> \o r] :
                 x \in FlatMappings("o" \o TokenNames[1]),
                 r \in UNION {LeafEntries("o", 2, m) : m \in 1..MaxKeys}}

\* get_id without the recursion into mappings
get_id_flat(seq) == Some(seq.addr)

\* get_id(seq): id(seq) unless seq is a mapping, for a mapping the mapping
\* of its keys to the get_id of their values
RECURSIVE get_id(_)
get_id(seq) ==
    IF seq.kind # "dict" THEN Some(seq.addr)
    ELSE MapKey([j \in 1..Len(seq.vals) |-> get_id(seq.vals[j])])

\* a call of get_id on a collection
get_id_call ==
    /\ pc = "idle"
    /\ \E seq \in Collections :
          /\ wrfseq' = seq
          /\ result' = [status |-> "ok", err |-> "", arr |-> NoArray,
                        flag |-> FALSE, id |-> get_id(seq)]
    /\ req' = [NoReq EXCEPT !.fn = "get_id"]
    /\ pc' = "done"
    /\ ResetLocals
    /\ UNCHANGED cache
    /\ UNCHANGED <<ext, view>>

\* calls with a cache of extracted variables
NextCached ==
    \/ extract_vars_cached
    \/ is_moving_domain
    \/ is_moving_loop
    \/ _cat_files
    \/ _cat_loop
    \/ _find_forward
    \/ _find_reverse
    \/ _join_files
    \/ _join_loop
    \/ Return

SpecCached == Init /\ [][NextCached]_vars

\* the cache token of a collection
NextId ==
    \/ get_id_call
    \/ Return

SpecId == Init /\ [][NextId]_vars

\* direct calls of the moving-domain detector
NextMoving ==
    \/ is_moving_domain_call
    \/ is_moving_domain
    \/ is_moving_loop
    \/ Return

SpecMoving == Init /\ [][NextMoving]_vars

\* ======================================================================
\* Properties
\* ======================================================================
Files == wrfseq.files
NumSrc == Len(Files)
Extent(i) == Files[i].Time
NonTime(i) == Files[i].var.shape[2]

\* Extent(1) + ... + Extent(j)
RECURSIVE Cum(_)
Cum(j) == IF j = 0 THEN 0 ELSE Cum(j - 1) + Extent(j)

Total == Cum(NumSrc)

Extents == [i \in 1..NumSrc |-> Extent(i)]

SameNonTime == \A i \in 1..NumSrc : NonTime(i) = NonTime(1)

\* time t of source i with a leading time axis of length 1
Row(i, t) ==
    [shape |-> <<1, NonTime(i)>>,
     val |-> [ix \in {0} \X Range0(NonTime(i)) |-> Files[i].var.val[<<t, ix[2]>>]],
     masked |-> FALSE,
     mask |-> [ix \in {0} \X Range0(NonTime(i)) |-> FALSE]]

\* the value the facade hands back for the combined array a
Expect(a) == Returned(IF req.squeeze THEN squeeze(a) ELSE a)

Done == pc = "done"

Extraction == Done /\ req.fn = "extract_vars"

CatSingle ==
    /\ Extraction
    /\ wrfseq.kind = "seq"
    /\ req.method = "cat"
    /\ req.timeidx # ALL_TIMES

\* the cat lookup of global index g ended at source j, local index g - Cum(j-1)
LocatedAt(g) ==
    \E j \in 1..NumSrc :
        /\ Cum(j - 1) <= g
        /\ g < Cum(j)
        /\ wrfnc = j
        /\ filetimeidx = g - Cum(j - 1)
        /\ result = Expect(Row(j, g - Cum(j - 1)))

\* C1: a cat single-time request with global index 0 <= g < T selects the
\* source whose cumulative range contains g and reads the local index
\* g - (extents of the sources before it).
C1_ForwardLocate ==
    (CatSingle /\ req.timeidx[1] >= 0 /\ req.timeidx[1] < Total)
        => LocatedAt(req.timeidx[1])

\* extents [3,2,4], g = 4: source 1 (the second), local index 1
C1_Witness ==
    /\ CatSingle
    /\ Extents = ExampleExtents
    /\ req.timeidx = Some(4)
    /\ wrfnc = 2
    /\ filetimeidx = 1
    /\ result.status = "ok"

\* C2: a cat single-time request with global index -T <= g < 0 returns what
\* the forward lookup of g + T returns.
C2_ReverseLocate ==
    (CatSingle /\ req.timeidx[1] < 0 /\ req.timeidx[1] >= 0 - Total)
        => LocatedAt(req.timeidx[1] + Total)

\* extents [3,2,4], g = -1: source 2 (the third), local index 3
C2_Witness ==
    /\ CatSingle
    /\ Extents = ExampleExtents
    /\ req.timeidx = Some(0 - 1)
    /\ wrfnc = 3
    /\ filetimeidx = 3
    /\ result.status = "ok"

\* C3: a cat single-time request with g >= T or g < -T raises IndexError
\* once every source has been walked, and returns no array.
C3_OutOfBounds ==
    (CatSingle /\ (req.timeidx[1] >= Total \/ req.timeidx[1] < 0 - Total))
        => /\ result = Raised("IndexError")
           /\ wrf_iter = NumSrc

\* extents [3,2,4], g = -10
C3_Witness ==
    /\ CatSingle
    /\ Extents = ExampleExtents
    /\ req.timeidx = Some(0 - 10)
    /\ result.status = "error"
    /\ wrf_iter = 3

\* the source whose cumulative range contains the global time g
SrcOf(g) == CHOOSE j \in 1..NumSrc : Cum(j - 1) <= g /\ g < Cum(j)

MaxExtent ==
    CHOOSE m \in {Extent(i) : i \in 1..NumSrc} :
        \A i \in 1..NumSrc : Extent(i) <= m

CatAll ==
    /\ Extraction
    /\ wrfseq.kind = "seq"
    /\ req.method = "cat"
    /\ req.timeidx = ALL_TIMES

\* the sources' data one after the other along the time axis
CatExpected ==
    LET sh == <<Total, NonTime(1)>> IN
    [shape |-> sh,
     val |-> [ix \in Indices(sh) |->
                Files[SrcOf(ix[1])].var.val[<<ix[1] - Cum(SrcOf(ix[1]) - 1),
                                              ix[2]>>]],
     masked |-> FALSE,
     mask |-> [ix \in Indices(sh) |-> FALSE]]

\* C4: the all-times cat result of sources with one non-time shape S has
\* shape [n_0 + ... + n_{k-1}] + S, and its time rows from the offset of
\* source j on are source j's data, in the order of the collection.
C4_CatAllTimes ==
    (CatAll /\ SameNonTime) => result = Expect(CatExpected)

C4_Witness ==
    /\ CatAll
    /\ SameNonTime
    /\ Extents = <<2, 1, 2>>
    /\ ~req.squeeze
    /\ result.status = "ok"
    /\ result.arr.shape = <<5, NonTime(1)>>

\* C5: a cat combination of sources whose non-time shapes differ fails with
\* an error and returns no array.
C5_CatShapeError ==
    (Extraction /\ wrfseq.kind = "seq" /\ req.method = "cat" /\ ~SameNonTime)
        => result.status = "error"

JoinAll ==
    /\ Extraction
    /\ wrfseq.kind = "seq"
    /\ req.method = "join"
    /\ req.timeidx = ALL_TIMES

\* one row per source, padded with the fill value up to the longest extent
JoinExpected ==
    LET sh == <<NumSrc, MaxExtent, NonTime(1)>> IN
    [shape |-> sh,
     val |-> [ix \in Indices(sh) |->
                IF ix[2] < Extent(ix[1] + 1)
                THEN Files[ix[1] + 1].var.val[<<ix[2], ix[3]>>]
                ELSE DEFAULT_FILL],
     masked |-> FALSE,
     mask |-> [ix \in Indices(sh) |-> FALSE]]

\* C6: the all-times join result has shape [k, max(n_i)] + S; rows
\* [i, 0:n_i] are source i's data and every [i, t] with t >= n_i holds the
\* fill value.
C6_JoinBuffer ==
    (JoinAll /\ SameNonTime)
        => /\ result.status = "ok"
           /\ result.arr.shape = Expect(JoinExpected).arr.shape
           /\ result.arr.val = Expect(JoinExpected).arr.val

C6_Witness ==
    /\ JoinAll
    /\ SameNonTime
    /\ Extents = <<1, 2, 1>>
    /\ ~req.squeeze
    /\ result.status = "ok"
    /\ result.arr.shape = <<3, 2, NonTime(1)>>
    /\ result.arr.val[<<0, 1, 0>>] = DEFAULT_FILL

\* C7: in an all-times join the masked positions are exactly the positions
\* [i, t] with t >= n_i (none when the extents are equal), whatever the data.
C7_JoinMasking ==
    (JoinAll /\ SameNonTime /\ ~req.squeeze /\ result.status = "ok")
        => \A ix \in DOMAIN result.arr.mask :
              result.arr.mask[ix] = (ix[2] >= Extent(ix[1] + 1))

JoinSingle ==
    /\ Extraction
    /\ wrfseq.kind = "seq"
    /\ req.method = "join"
    /\ req.timeidx # ALL_TIMES

\* a[:, t, ...] of the join result a, the time axis kept with length 1
AtTime(a, t) ==
    LET sh == <<a.shape[1], 1, a.shape[3]>> IN
    [shape |-> sh,
     val |-> [ix \in Indices(sh) |-> a.val[<<ix[1], PyIdx(t, a.shape[2]), ix[3]>>]],
     masked |-> a.masked,
     mask |-> [ix \in Indices(sh) |-> a.mask[<<ix[1], PyIdx(t, a.shape[2]), ix[3]>>]]]

\* the all-times join of the collection, squeeze off
JoinAllResult ==
    JoinFiles([req EXCEPT !.timeidx = ALL_TIMES, !.squeeze = FALSE], Files)

\* C8: the join result for a time index t within the longest extent is the
\* all-times join result at time position t, fill and mask included, with
\* shape [k, 1] + S; the whole padded buffer is filled before the slicing.
C8_JoinSingleTime ==
    /\ (JoinSingle /\ InBounds(req.timeidx[1], MaxExtent)
          /\ JoinAllResult.status = "ok")
         => result = Expect(AtTime(JoinAllResult.arr, req.timeidx[1]))
    /\ (pc = "_join_loop" /\ req.timeidx # ALL_TIMES)
         => outdata.shape = <<NumSrc, MaxExtent, NonTime(1)>>

C8_Witness ==
    /\ JoinSingle
    /\ Extents = <<2, 1>>
    /\ req.timeidx = Some(1)
    /\ ~req.squeeze
    /\ result.status = "ok"
    /\ result.arr.shape = <<2, 1, NonTime(1)>>
    /\ result.arr.mask[<<1, 0, 0>>]
    /\ ~result.arr.mask[<<0, 0, 0>>]

SingleSource ==
    /\ Extraction
    /\ wrfseq.kind = "single"
    /\ req.timeidx # ALL_TIMES

Detection == Done /\ req.fn = "is_moving_domain"

\* the corner points of source i at time t
CornersOf(i, t) == <<Files[i].XLAT[t], Files[i].XLONG[t]>>

StaticGrid ==
    \A i \in 1..NumSrc, j \in 1..NumSrc :
        \A t \in Range0(Extent(i)), u \in Range0(Extent(j)) :
            CornersOf(i, t) = CornersOf(j, u)

\* some source has corner points that differ from another source's
SourceDiffers ==
    \E i \in 1..NumSrc, j \in 1..NumSrc :
        /\ i # j
        /\ \E t \in Range0(Extent(i)), u \in Range0(Extent(j)) :
              CornersOf(i, t) # CornersOf(j, u)

\* C10: with no cached value, is_moving_domain returns false when all
\* sources have the same corner points at every time, and true when any one
\* source's corner points differ from the others', wherever that source is.
C10_MovingResult ==
    (Detection /\ corners # <<>>)
        => /\ StaticGrid => result.flag = FALSE
           /\ SourceDiffers => result.flag = TRUE

\* the cache holds a moving-domain flag under the call's token for variable v
FlagCached(v) ==
    /\ req.key # None
    /\ <<req.key[1], Product(Some(v))>> \in DOMAIN cache

SamePair(v) ==
    /\ lat_coord(Some(v)) = lat_coord(req.varname)
    /\ lon_coord(Some(v)) = lon_coord(req.varname)

\* C11 as stated: once a moving-domain flag is cached under a token, an
\* extraction with that token, of any variable, compares no corner points and
\* uses the cached flag.
C11_MovingFlagReuse ==
    \A v \in VarNames :
        (req.fn = "extract_vars" /\ FlagCached(v))
            => /\ pc # "is_moving_loop"
               /\ is_moving # None
                    => is_moving[1] = cache[<<req.key[1], Product(Some(v))>>]

\* C11 amended: once a moving-domain flag is cached under a token for a
\* coordinate pair, an extraction with that token of any variable with that
\* coordinate pair compares no corner points and uses the cached flag.
C11_MovingFlagReusePair ==
    \A v \in VarNames :
        (req.fn = "extract_vars" /\ FlagCached(v) /\ SamePair(v))
            => /\ pc # "is_moving_loop"
               /\ is_moving # None
                    => is_moving[1] = cache[<<req.key[1], Product(Some(v))>>]

\* an extraction of P that took the flag True from the cache: it read no
\* reference corners
C11_Witness ==
    /\ Extraction
    /\ req.varname = Some("P")
    /\ FlagCached("T")
    /\ is_moving = Some(TRUE)
    /\ corners = <<>>
    /\ Len(wrfseq.files) = 2
    /\ wrfseq.files[1].XLONG = wrfseq.files[2].XLONG

\* an extraction from a mapping called with a token mapping
DictExtraction ==
    /\ Extraction
    /\ wrfseq.kind = "dict"
    /\ req.key # None

\* A_i: what the entry of the key at position i combines to (squeeze off)
EntryRes ==
    [i \in 1..NumSrc |->
       ExtractVar(<<>>, [req EXCEPT !.squeeze = FALSE], Files[i], FALSE,
                  None).res]

\* the first key after the first whose array has another shape (0: none)
MismatchIn(A) ==
    IF \A i \in 1..NumSrc : A[i].arr.shape = A[1].arr.shape
    THEN 0
    ELSE CHOOSE i \in 2..NumSrc :
            /\ A[i].arr.shape # A[1].arr.shape
            /\ \A j \in 2..(i - 1) : A[j].arr.shape = A[1].arr.shape

\* the arrays A_0 .. A_{m-1} along a new leftmost axis
StackOf(A) ==
    LET sh == <<NumSrc>> \o A[1].arr.shape IN
    [shape |-> sh,
     val |-> [ix \in Indices(sh) |-> A[ix[1] + 1].arr.val[Tail(ix)]],
     masked |-> FALSE,
     mask |-> [ix \in Indices(sh) |-> FALSE]]

C16_InvalidMethod ==
    (Extraction /\ wrfseq.kind \in {"single", "seq"}
        /\ req.method \notin {"cat", "join"})
        => result = Raised("ValueError")

\* ------------------------------------------------------------------- C15
\* C15: an extraction on a mapping, mappings nested inside it included, calls
\* is_moving_domain exactly once by the time it returns an array.
C15_MovingOnce ==
    (DictExtraction /\ result.status = "ok") => moving_calls = 1

\* ------------------------------------------------------------------- C18
\* caller p has finished the second of two successful calls with the same
\* arguments and token
SecondCall(p) ==
    /\ ext[p].pc = "done"
    /\ ext[p].out.status = "ok"
    /\ ext[p].key # None
    /\ ext[p].prev # None
    /\ ext[p].prev[1].status = "ok"
    /\ Repeats(ext[p], ext[p].prev[1])

\* C18: of two successive extractions with metadata that share their token
\* and their coordinate products, the second reads no coordinate variable
\* from the sources: all of them come from the cache.
C18_ReadOnce ==
    \A p \in Procs : SecondCall(p) => ext[p].reads = <<>>

\* ------------------------------------------------------------------- C14
\* the coordinate products: every product but the moving-domain flag
CoordOps(p) ==
    {i \in 1..Len(ext[p].ops) : ext[p].ops[i][3] # Product(ext[p].varname)}

\* C14: an extraction with metadata on a mapping makes no cache operation on
\* a coordinate product (lat/lon dimensions and values, time values,
\* aggregated coordinates, projections) while its entries are extracted.
C14_NoEntryCaching ==
    \A p \in Procs : ext[p].kind = "dict" => CoordOps(p) = {}

\* ------------------------------------------------------------------- C19
\* the call of caller p as it started, and that call run alone from the
\* cache entries under its own tokens
StartOf(s) ==
    [MetaIdle EXCEPT !.pc = "start", !.kind = s.kind, !.files = s.files,
                     !.method = s.method, !.timeidx = s.timeidx,
                     !.key = s.key, !.varname = s.varname]

Alone(p) == MetaRun(R(StartOf(ext[p]), ext[p].c0))

\* every cache operation of the call was made with a token of the call
OwnOps(s) ==
    \A i \in 1..Len(s.ops) :
        s.ops[i][2] # None /\ s.ops[i][2][1] \in TokensOf(s.key)

\* C19: when a call with a token returns, whatever another caller with
\* another token did in between, every cache operation it made used its own
\* token (for a mapping, the subtokens of its keys), and its result and the
\* cache entries under its tokens are those of the call run alone.
C19_TokenIsolation ==
    \A p \in Procs :
        ext[p].pc = "done" =>
            /\ OwnOps(ext[p])
            /\ ext[p].out = Alone(p).s.out
            /\ OwnCache(cache, ext[p].key) = OwnCache(Alone(p).c, ext[p].key)

\* the first caller's call on a collection has returned its coordinates
\* while the second caller's call, started before it, is in its loop, and
\* the cache holds entries of both
C19_Witness ==
    /\ ext[1].pc = "done"
    /\ ext[1].kind = "seq"
    /\ ext[1].out.status = "ok"
    /\ ext[2].pc = "agg_loop"
    /\ Len(ext[1].ops) > 2
    /\ \E kp \in DOMAIN cache : kp[1] = "k1"
    /\ \E kp \in DOMAIN cache : kp[1] = "k2"

\* ------------------------------------------------------------------- C17
\* the position of the index ix in the row-major order of an array of the
\* given shape
RECURSIVE Offset(_, _)
Offset(shape, ix) ==
    IF shape = <<>> THEN 0
    ELSE Offset(SubSeq(shape, 1, Len(shape) - 1),
                SubSeq(ix, 1, Len(ix) - 1)) * shape[Len(shape)]
         + ix[Len(ix)]

LongestExtent(files) ==
    CHOOSE n \in {files[i].Time : i \in 1..Len(files)} :
        \A i \in 1..Len(files) : files[i].Time <= n

\* the shape before the squeeze of what a source or an ordered collection of
\* sources of non-time shape S combines to: [n]+S, [n_0 + ... + n_{k-1}]+S
\* and [k, max n_i]+S for all times; [1]+S, [1]+S and [k, 1]+S for one time
PreShape(e) ==
    LET S == Tail(e.files[1].var.shape)
        one == req.timeidx # ALL_TIMES IN
    IF e.kind = "single"
    THEN <<IF one THEN 1 ELSE e.files[1].Time>> \o S
    ELSE IF req.method = "cat"
    THEN <<IF one THEN 1 ELSE SumTimes(e.files)>> \o S
    ELSE <<Len(e.files), IF one THEN 1 ELSE LongestExtent(e.files)>> \o S

\* for a mapping: [num_keys] + the shape of an entry
FullShape ==
    IF wrfseq.kind = "dict"
    THEN <<NumSrc>> \o PreShape(Files[1])
    ELSE PreShape(wrfseq)

\* the same call with squeeze off
Unsqueezed ==
    ExtractVar(<<>>, [req EXCEPT !.squeeze = FALSE], wrfseq, FALSE,
               req.key).res

\* a holds the elements of b in the same row-major order
SameElements(a, b) ==
    /\ a.masked = b.masked
    /\ \A ix \in Indices(a.shape) :
         \E jx \in Indices(b.shape) :
            /\ Offset(b.shape, jx) = Offset(a.shape, ix)
            /\ a.val[ix] = b.val[jx]
            /\ a.mask[ix] = b.mask[jx]

SqueezeCall ==
    /\ Extraction
    /\ wrfseq.kind \in {"single", "seq", "dict"}
    /\ req.method \in {"cat", "join"}
    /\ Unsqueezed.status = "ok"

C17_WitnessDict ==
    /\ SqueezeCall
    /\ wrfseq.kind = "dict"
    /\ req.squeeze
    /\ FullShape = <<2, 1, 2>>
    /\ result.status = "ok"
    /\ result.arr.shape = <<2, 2>>

\* ------------------------------------------------------------------- C20
\* the sources of the collection in its order
AllSources == [i \in 1..view.n |-> i]

\* C20: whatever ordered collection get_iterable was given, no pass over the
\* view fails, every pass ends having yielded all the sources from the first
\* in the collection's order, every pass in progress has yielded the sources
\* up to its position, and the wrapped object has not been advanced.
C20_MultiPass ==
    /\ view.pc # "error"
    /\ view.pos = 0
    /\ \A i \in 1..Len(view.iters) :
          /\ view.iters[i].done => view.iters[i].out = AllSources
          /\ view.iters[i].out =
                SubSeq(AllSources, 1, Len(view.iters[i].out))

\* ------------------------------------------------------------------- C30
\* the sources the detection is about, and their corner points
Walk == Target.seq.files
WalkCorners(i, t) == <<Walk[i].XLAT[t], Walk[i].XLONG[t]>>

\* a detection that found no cached flag and took the reference corners
Walked == Detection /\ corners # <<>>

\* the grid moves inside the first source only: every later source stays,
\* at all its times, where the first source's last time left the grid
MotionInsideFirst ==
    \A i \in 2..Len(Walk) : \A t \in Range0(Walk[i].Time) :
        WalkCorners(i, t) = WalkCorners(1, Walk[1].Time - 1)

\* every later source has, at all its times, the corner points of time 0 of
\* the first source
LaterAtReference ==
    \A i \in 2..Len(Walk) : \A t \in Range0(Walk[i].Time) :
        WalkCorners(i, t) = WalkCorners(1, 0)

FalseStored ==
    /\ result.flag = FALSE
    /\ req.key # None =>
          get_cached_item(cache, Target.key, Product(req.varname))
             = Some(FALSE)

Mismatch(i) ==
    \E t \in Range0(Walk[i].Time) : WalkCorners(i, t) # WalkCorners(1, 0)

\* the flag stored under the token of the walk, if any
StoredFlag == get_cached_item(cache, Target.key, Product(req.varname))

\* C24: a detection that finds no cached flag examines the sources after the
\* first in order and stores nothing while it does; it ends at the first
\* source with a mismatching corner, having taken no later source, with true
\* returned and stored, or after the last source, none mismatching, with
\* false returned and stored.  A detection that finds a cached flag returns
\* it, false included.
C24_ShortCircuit ==
    /\ (pc = "is_moving_loop" /\ req.fn = "is_moving_domain")
          => /\ wrfnc = wrf_iter
             /\ \A i \in 2..wrf_iter : ~Mismatch(i)
             /\ StoredFlag = None
    /\ Walked
          => /\ IF \E i \in 2..Len(Walk) : Mismatch(i)
                THEN /\ result.flag = TRUE
                     /\ Mismatch(wrfnc)
                     /\ \A i \in 2..(wrfnc - 1) : ~Mismatch(i)
                     /\ wrf_iter = wrfnc
                ELSE /\ result.flag = FALSE
                     /\ wrf_iter = Len(Walk)
             /\ Target.key # None => StoredFlag = Some(result.flag)
    /\ (Detection /\ corners = <<>>)
          => /\ Target.key # None
             /\ StoredFlag = Some(result.flag)

\* three sources with a token, the second the first to mismatch: true is
\* returned and stored and the third source was not taken
C24_Witness ==
    /\ Walked
    /\ wrfseq.kind = "seq"
    /\ Len(Walk) = 3
    /\ Mismatch(2)
    /\ wrf_iter = 2
    /\ result.flag = TRUE
    /\ StoredFlag = Some(TRUE)

\* a cached false is returned as false
C24_WitnessCached ==
    /\ Detection
    /\ corners = <<>>
    /\ result.flag = FALSE
    /\ StoredFlag = Some(FALSE)

\* ------------------------------------------------------------------- C23
\* the sources under the first key of a mapping, the first key of that
\* entry if it is a mapping itself, and so on
RECURSIVE FirstLeaf(_)
FirstLeaf(seq) ==
    IF seq.kind = "dict" THEN FirstLeaf(seq.files[1]) ELSE seq.files

\* some source after the first of the sources fs has, at some time, other
\* corner points than time 0 of the first
Moves(fs) ==
    \E i \in 2..Len(fs) : \E t \in Range0(fs[i].Time) :
        <<fs[i].XLAT[t], fs[i].XLONG[t]>> # <<fs[1].XLAT[0], fs[1].XLONG[0]>>

\* some entry of the mapping other than the first holds a source on another
\* grid than time 0 of the first source of the first entry
OtherEntryDiffers ==
    \E e \in 2..NumSrc :
        \E i \in 1..Len(FirstLeaf(Files[e])) :
            \E t \in Range0(FirstLeaf(Files[e])[i].Time) :
                <<FirstLeaf(Files[e])[i].XLAT[t],
                  FirstLeaf(Files[e])[i].XLONG[t]>>
                    # <<FirstLeaf(wrfseq)[1].XLAT[0],
                        FirstLeaf(wrfseq)[1].XLONG[0]>>

MappingDetection == Detection /\ wrfseq.kind = "dict"

\* C23: a detection on a mapping walks the sources of the first key's entry
\* only (of the first key of that entry if it is a mapping, and so on), with
\* the subtoken under that key: its result is that of those sources alone,
\* whatever the entries of the other keys hold, and it is stored under that
\* subtoken only.
C23_FirstKeyOnly ==
    /\ (wrfseq.kind = "dict" /\ pc \in {"is_moving_domain", "is_moving_loop"})
          => /\ Walk = FirstLeaf(wrfseq)
             /\ wrfnc <= Len(FirstLeaf(wrfseq))
    /\ (MappingDetection /\ corners # <<>>)
          => /\ result.flag = Moves(FirstLeaf(wrfseq))
             /\ req.key # None
                  => get_cached_item(cache, Some("k1"), Product(req.varname))
                        = Some(result.flag)
             /\ \A e \in 2..NumSrc :
                   get_cached_item(cache, Some(TokenNames[e]),
                                   Product(req.varname)) = None

\* a mapping of two keys whose second entry is on another grid: false
C23_Witness ==
    /\ MappingDetection
    /\ corners # <<>>
    /\ NumSrc = 2
    /\ Len(FirstLeaf(wrfseq)) = 2
    /\ OtherEntryDiffers
    /\ req.key # None
    /\ result.flag = FALSE

\* ------------------------------------------------------------------- C28
\* C28: an extraction from a mapping called without a token returns the
\* stacked array of its entries, as it does with a token mapping.
C28_NoTokenNeeded ==
    (Extraction /\ wrfseq.kind = "dict" /\ req.key = None)
        => LET A == EntryRes IN
           ((\A i \in 1..NumSrc : A[i].status = "ok") /\ MismatchIn(A) = 0)
               => result = Expect(StackOf(A))

\* ------------------------------------------------------------------- C27
\* the buffer-fill loops of the combiners, wrf_iter sources written
CatFilling == pc = "_cat_loop" /\ wrfseq.kind = "seq"

JoinFilling == pc = "_join_loop" /\ wrfseq.kind = "seq"

\* what the cat buffer holds once the first j sources are written and the
\* positions of the others are as np.empty left them (a source of non-time
\* extent 1 is broadcast along the non-time axis)
CatFilled(j) ==
    [ix \in DOMAIN outdata.val |->
        IF ix[1] < Cum(j)
        THEN Files[SrcOf(ix[1])].var.val[<<ix[1] - Cum(SrcOf(ix[1]) - 1),
                                           IF NonTime(SrcOf(ix[1])) = 1
                                           THEN 0 ELSE ix[2]>>]
        ELSE UNINIT]

\* what the join buffer holds once the first j sources are written
JoinFilled(j) ==
    [ix \in DOMAIN outdata.val |->
        IF ix[1] < j /\ ix[2] < Extent(ix[1] + 1)
        THEN Files[ix[1] + 1].var.val[<<ix[2], ix[3]>>]
        ELSE DEFAULT_FILL]

\* C27: in the buffer-fill loops each source writes its own region of the
\* output buffer and no other position: after j sources the cat buffer holds
\* source i's data in the time rows [offset_i, offset_i + n_i) for i < j and
\* is untouched from the running offset on, the join buffer holds source i's
\* data in [i, 0:n_i] for i < j and the fill value elsewhere; when the cat
\* loop ends the running offset equals the allocated total and no position
\* of the buffer is left unwritten.
C27_DisjointWrites ==
    /\ CatFilling =>
          /\ startidx = Cum(wrf_iter)
          /\ outdata.val = CatFilled(wrf_iter)
          /\ wrf_iter = NumSrc =>
                /\ startidx = outdata.shape[1]
                /\ \A ix \in DOMAIN outdata.val : outdata.val[ix] # UNINIT
    /\ JoinFilling =>
          /\ file_idx = wrf_iter
          /\ outdata.val = JoinFilled(wrf_iter)

C27_Witness ==
    /\ CatFilling
    /\ Extents = <<2, 1, 2>>
    /\ wrf_iter = 3
    /\ startidx = 5
    /\ outdata.shape[1] = 5
    /\ outdata.val[<<4, 0>>] # UNINIT

C27_WitnessPartial ==
    /\ CatFilling
    /\ Extents = <<2, 1, 2>>
    /\ wrf_iter = 2
    /\ outdata.val[<<2, 0>>] # UNINIT
    /\ outdata.val[<<3, 0>>] = UNINIT

C27_WitnessJoin ==
    /\ JoinFilling
    /\ Extents = <<1, 2, 1>>
    /\ wrf_iter = 3
    /\ outdata.val[<<1, 1, 0>>] = Files[2].var.val[<<1, 0>>]
    /\ outdata.val[<<2, 1, 0>>] = DEFAULT_FILL

\* ------------------------------------------------------------------- C25
\* the cache writes of caller p so far, and the coordinate reads
Puts(p) == {ext[p].ops[n][3] : n \in {i \in 1..Len(ext[p].ops) :
                                         ext[p].ops[i][1] = "put"}}

ReadNames(p) == {ext[p].reads[n][3] : n \in 1..Len(ext[p].reads)}

\* the products _build_data_array caches for the lat/lon coordinate named c
GridProducts(c) == {c \o "_dim", c \o "_val"}

LatLonNames == {"XLONG", "XLAT", "XLONG_U", "XLAT_U"}

\* C25: _build_data_array writes <coord>_dim and <coord>_val of a lat/lon
\* coordinate only when the domain is not moving (and then after every read
\* of the coordinate), it writes none of them when the moving flag is true,
\* and it writes the time coordinate only when the source did not come from
\* a collection (and then after every read of it).
C25_BuilderCaching ==
    \A p \in Procs :
        /\ \A c \in LatLonNames :
              (Puts(p) \cap GridProducts(c) # {}) => ext[p].moving = Some(FALSE)
        /\ "XTIME" \in Puts(p) =>
              IF ext[p].kind = "dict"
              THEN \E e \in 1..Len(ext[p].files) : ext[p].files[e].kind = "single"
              ELSE ext[p].kind = "single"
        /\ (ext[p].pc = "done" /\ ext[p].out.status = "ok"
               /\ ext[p].kind # "dict") =>
              /\ \A c \in LatLonNames \cap ReadNames(p) :
                    ext[p].moving = Some(FALSE) => GridProducts(c) \subseteq Puts(p)
              /\ (ext[p].kind = "single" /\ "XTIME" \in ReadNames(p))
                    => "XTIME" \in Puts(p)

\* a call on a moving collection has read the grid and cached none of it
C25_Witness ==
    /\ ext[1].pc = "done"
    /\ ext[1].out.status = "ok"
    /\ ext[1].kind = "seq"
    /\ ext[1].moving = Some(TRUE)
    /\ {"XLONG", "XLAT", "XTIME"} \subseteq ReadNames(1)
    /\ Puts(1) \cap {"XLONG_dim", "XLONG_val", "XLAT_dim", "XLAT_val",
                     "XTIME"} = {}

\* a call on one source has cached the grid and the time coordinate
C25_WitnessStatic ==
    /\ ext[1].pc = "done"
    /\ ext[1].kind = "single"
    /\ ext[1].moving = Some(FALSE)
    /\ {"XLONG_dim", "XLONG_val", "XLAT_dim", "XLAT_val", "XTIME"}
          \subseteq Puts(1)

\* a call on a static collection has cached the grid, not the time coordinate
C25_WitnessSeq ==
    /\ ext[1].pc = "done"
    /\ ext[1].kind = "seq"
    /\ ext[1].moving = Some(FALSE)
    /\ {"XLONG_dim", "XLONG_val", "XLAT_dim", "XLAT_val"} \subseteq Puts(1)
    /\ "XTIME" \in ReadNames(1)
    /\ "XTIME" \notin Puts(1)

\* ------------------------------------------------------------------- C26
\* _build_data_array has returned to caller p: its array is the result for
\* one source and for a cat call for one time, first_var of the combiners
\* otherwise
Built(p) ==
    /\ ext[p].bf > 0
    /\ Coordinates(ext[p].varname[1]) # None
    /\ \/ ext[p].pc = "agg_time_get"
       \/ /\ ext[p].pc = "entry_done"
          /\ CurSeq(ext[p]).kind = "single"
             \/ (IsCat(ext[p]) /\ ~is_multi_time_req(ext[p].timeidx))

BuiltProj(p) ==
    IF ext[p].pc = "agg_time_get" THEN ext[p].first_var.proj
    ELSE ext[p].res.proj

\* the projections of the requested time slices of the source read
SliceProj(s) ==
    IF ~s.moving[1] THEN ProjAt(s, 0)
    ELSE IF is_multi_time_req(s.bt)
    THEN [t \in Range0(extract_dim(CurFile(s))) |-> ProjAt(s, t)]
    ELSE ProjAt(s, PyIdx(s.bt[1], extract_dim(CurFile(s))))

\* C26: the projection _build_data_array attaches is made of the lat/lon
\* grids of each requested time slice when the domain is moving (one per
\* slice for all times, the one of the grids at t for the time index t), and
\* is the single projection of time 0 when the domain is static.
C26_ProjectionPerSlice ==
    \A p \in Procs : Built(p) => BuiltProj(p) = Some(SliceProj(ext[p]))

\* ------------------------------------------------------------------- C29
\* the aggregated products
AggProducts ==
    {c \o sfx : c \in LatLonNames \cup {"XTIME", "projection"},
                sfx \in {"_cat", "_join"}}

\* the values of the coordinate w ("time", "lat", "lon") or the projections
\* ("proj") of source i, one per time
SourceVals(s, w, i) ==
    IF w = "proj"
    THEN [t \in Range0(extract_dim(s.files[i])) |->
            ProjAt([s EXCEPT !.bf = i], t)]
    ELSE CoordVar(s.files[i], AggNames(s, w))

\* the values of all sources one after the other
RECURSIVE CatOf(_, _, _)
CatOf(s, w, i) ==
    IF i > Len(s.files) THEN <<>>
    ELSE [t \in 1..extract_dim(s.files[i]) |-> SourceVals(s, w, i)[t - 1]]
         \o CatOf(s, w, i + 1)

\* one row per source, padded with the fill value up to the longest extent
JoinOf(s, w) ==
    [i \in 1..Len(s.files) |->
       [t \in 1.._find_max_time_size(s.files) |->
          IF t <= extract_dim(s.files[i]) THEN SourceVals(s, w, i)[t - 1]
          ELSE DEFAULT_FILL]]

AggOf(s, w) == IF IsCat(s) THEN CatOf(s, w, 1) ELSE JoinOf(s, w)

\* the aggregated products the call of caller p has written
AggPuts(p) == Puts(p) \cap AggProducts

\* C29: an aggregated entry (<coord>_cat, <coord>_join, projection_cat,
\* projection_join) is written only after the loop over all the sources has
\* completed and holds the aggregate over all the sources, for join the
\* array over all sources and the longest extent whatever time was asked
\* for; a call that fails inside the loop and a cat call for one time write
\* none.
C29_AggregatesComplete ==
    \A p \in Procs :
        ext[p].kind = "seq" =>
           /\ AggPuts(p) # {} =>
                 /\ ext[p].i > Len(ext[p].files)
                 /\ ext[p].pc \in {"agg_lon_put", "agg_proj_put", "agg_time_put",
                                   "agg_done", "entry_done", "done"}
           /\ \A w \in {"lat", "lon", "proj", "time"} :
                 (AggNames(ext[p], w) # "" \/ w = "proj") =>
                    (AggName(ext[p], w) \in AggPuts(p) =>
                        cache[<<ext[p].key[1], AggName(ext[p], w)>>]
                           = AggOf(ext[p], w))
           /\ (IsCat(ext[p]) /\ ~is_multi_time_req(ext[p].timeidx))
                 => AggPuts(p) = {}
           /\ (ext[p].pc = "done" /\ ext[p].out.err = "ValueError")
                 => AggPuts(p) = {}

\* a join call for one time on three sources of a moving domain has stored
\* the arrays over all sources and times
C29_Witness ==
    /\ ext[1].pc = "done"
    /\ ext[1].out.status = "ok"
    /\ ext[1].kind = "seq"
    /\ Len(ext[1].files) = 3
    /\ ext[1].files[1].Time = 2
    /\ ~IsCat(ext[1])
    /\ ext[1].timeidx = Some(0)
    /\ AggPuts(1) = {"XLAT_join", "XLONG_join", "projection_join", "XTIME_join"}
    /\ Len(cache[<<"k1", "XLONG_join">>]) = 3
    /\ Len(cache[<<"k1", "XLONG_join">>][3]) = 2

\* a call has failed inside the loop after reading coordinates
C29_WitnessFail ==
    /\ ext[1].pc = "done"
    /\ ext[1].out.err = "ValueError"
    /\ ext[1].kind = "seq"
    /\ ext[1].i = 3
    /\ ext[1].moving = Some(TRUE)
    /\ Len(ext[1].reads) > 3

\* a cat call for one time has returned
C29_WitnessOne ==
    /\ ext[1].pc = "done"
    /\ ext[1].out.status = "ok"
    /\ ext[1].kind = "seq"
    /\ IsCat(ext[1])
    /\ ext[1].timeidx = Some(0 - 1)
    /\ Len(ext[1].ops) > 2

\* ------------------------------------------------------------------- C22
\* the call r was given a cache of extracted variables holding its variable
Held(r) == r.cache # None /\ r.cache[1][1] = r.varname[1]

HeldVar(r) == r.cache[1][2]

\* a call of extract_vars begins
Called == pc = "idle" /\ pc' # "idle" /\ req'.fn = "extract_vars"

\* C22: when the cache of extracted variables holds the name, the call
\* returns at once the cached variable (with meta off its values, element for
\* element), no source is read, neither the moving-domain detector nor a
\* combiner runs, and the coordinate cache is left as it was; when the cache
\* is absent or does not hold the name, the extraction takes its normal way.
C22_VariableCache ==
    [][Called =>
          IF Held(req')
          THEN /\ pc' = "done"
               /\ result'.status = "ok"
               /\ req'.meta => result'.arr = HeldVar(req')
               /\ ~req'.meta =>
                     /\ result'.arr.shape = HeldVar(req').values.shape
                     /\ result'.arr.val = HeldVar(req').values.val
               /\ cache' = cache
               /\ wrfnc' = 0 /\ wrf_iter' = 0
               /\ is_moving' = None /\ moving_calls' = 0
               /\ outdata' = NoArray
          ELSE IF is_multi_file(wrfseq')
          THEN pc' = Dispatch(req'.method) /\ result' = NoResult
          ELSE /\ pc' = "done"
               /\ result' \in {Finish(req', ReadSingle(wrfseq'.files[1],
                                                      req'.timeidx)),
                               Raised("IndexError")}]_vars

\* a call on a collection, with a token and squeeze on, has returned the
\* DataArray found in the cache of extracted variables, its shape untouched
C22_Witness ==
    /\ Done
    /\ req.fn = "extract_vars"
    /\ Held(req)
    /\ req.meta
    /\ req.squeeze
    /\ req.key # None
    /\ wrfseq.kind = "seq"
    /\ NumSrc = 2
    /\ result.arr = HeldVar(req)
    /\ result.arr.da
    /\ result.arr.values.shape = <<1, 2>>

\* the values of a cached DataArray with a fill value, returned with meta off
C22_WitnessValues ==
    /\ Done
    /\ req.fn = "extract_vars"
    /\ Held(req)
    /\ ~req.meta
    /\ HeldVar(req).fill
    /\ result.arr.masked
    /\ result.arr.mask[<<0, 1>>]

\* the cache holds another variable: the combiner runs
C22_WitnessMiss ==
    /\ pc = "_cat_loop"
    /\ req.cache # None
    /\ ~Held(req)

\* ------------------------------------------------------------------- C21
\* get_id has returned the token of the collection wrfseq
Identified == Done /\ req.fn = "get_id"

IsScalar(tok) == Len(tok) = 1

IsSequence(tok) == Len(tok) = 2 /\ tok[1] = "seq"

IsMapping(tok) == Len(tok) = 2 /\ tok[1] = "map"

\* the token mirrors the collection: a scalar for one source, one token per
\* source for an ordered collection, a mapping over the same keys for a
\* mapping
RECURSIVE Mirrors(_, _)
Mirrors(seq, tok) ==
    IF seq.kind = "single" THEN IsScalar(tok)
    ELSE IF seq.kind = "seq"
    THEN IsSequence(tok) /\ Len(tok[2]) = seq.n
    ELSE /\ IsMapping(tok)
         /\ DOMAIN tok[2] = DOMAIN seq.vals
         /\ \A j \in DOMAIN seq.vals : Mirrors(seq.vals[j], tok[2][j])

\* the token is the identity of the object for one source and for an
\* ordered collection alike, and a mapping over the same keys for a mapping
RECURSIVE Identifies(_, _)
Identifies(seq, tok) ==
    IF seq.kind # "dict" THEN tok = Some(seq.addr)
    ELSE /\ IsMapping(tok)
         /\ DOMAIN tok[2] = DOMAIN seq.vals
         /\ \A j \in DOMAIN seq.vals : Identifies(seq.vals[j], tok[2][j])

\* C21 as stated: the token of a collection mirrors its shape, a scalar for
\* one source, a sequence of tokens (one per source) for an ordered
\* collection, a mapping with the same keys, recursively, for a mapping.
C21_TokenMirrors == Identified => Mirrors(wrfseq, result.id)

\* C21: the token of one source and of an ordered collection is one scalar,
\* the identity of the object itself; the token of a mapping is a mapping
\* with the same keys, recursively, whose leaves are such scalars.
C21_TokenShape == Identified => Identifies(wrfseq, result.id)

\* the token of a mapping whose first entry is a mapping of two collections
C21_Witness ==
    /\ Identified
    /\ wrfseq.kind = "dict"
    /\ Len(wrfseq.vals) = 2
    /\ wrfseq.vals[1].kind = "dict"
    /\ Len(wrfseq.vals[1].vals) = 2
    /\ wrfseq.vals[1].vals[2].kind = "seq"
    /\ wrfseq.vals[1].vals[2].n = 3
    /\ wrfseq.vals[2].kind = "seq"
    /\ result.id = MapKey(<<MapKey(<<Some("okaka"), Some("okakb")>>),
                            Some("okb")>>)

====
